---- MODULE Spec2Model ----
(***************************************************************************)
(* Verification model of GobyWallet/openapi: the persistence layer         *)
(* (openapi/db.py), the address asset sync engine and the singleton        *)
(* resolver (openapi/sync.py), the block watcher (openapi/watcher.py),     *)
(* the puzzle matchers (openapi/did.py, openapi/nft.py), the               *)
(* single-flight guard (openapi/utils/singleflight.py), the transaction    *)
(* submission (create_transaction of openapi/api.py) and the Program       *)
(* codec and currying (openapi/types.py).                                  *)
(*                                                                         *)
(* Specifications:                                                         *)
(*   SpecDb  the persistence calls applied to arbitrary table contents;    *)
(*           reorg is modelled statement by statement inside its           *)
(*           transaction.                                                  *)
(*   SpecApi the /assets and /latest_singleton handlers of api.py: input   *)
(*           validation, the shared SingleFlight and the responses.        *)
(*   SpecSpent  update_asset_coin_spent_height chunk by chunk inside its   *)
(*           transaction, on coin id lists around the chunk size.          *)
(***************************************************************************)
EXTENDS Integers, Sequences, FiniteSets, TLC

\* ------------------------------------------------------------------ bounds

\* Heights range over 0..MaxHeight.
MaxHeight == 3

Heights == 0..MaxHeight

\* Coin ids (Asset.coin_id), watched addresses (32-byte puzzle hashes).
CoinIds == {"c1", "c2"}

Addresses == {"A", "B"}

\* ------------------------------------------------------------------ tables

VARIABLES
  db,          \* the committed tables: asset, address_sync, block, singletonspend
  txn,         \* the db.py transaction in progress, or the one that ended last
  chain,       \* the full node's current chain: the blocks of heights 0..peak
  nreorg,      \* how many times the full node has switched to another fork
  watcher,     \* Watcher.start: its position and its locals
  key_future,  \* SingleFlight.key_future: key -> the request whose work it is
  req,         \* the list_assets requests: where each is in SingleFlight.do
  task,        \* the sync_user_assets call each request started
  last_call,   \* per address, what the last completed sync call computed
  match,       \* a handle_coin call on its own: its arguments and its outcome
  world,       \* the full node's record of the singleton: its spends so far
  resolver,    \* the get_and_sync_singleton call: its position and its locals
  guard,       \* a SingleFlight on its own: its registry, callers and work
  sendtx,      \* a create_transaction request: the node's answers, its position
  program,     \* a Program value and the types.py calls applied to it
  hinted,      \* per hinted coin, the puzzle hash and the parent spend served
  api          \* the /assets and /latest_singleton requests and their responses

dbVars == <<db, txn>>

nodeVars == <<chain, nreorg>>

syncVars == <<key_future, req, task, last_call>>

resolveVars == <<world, resolver>>

\* What no step of the running system changes: the calls that are modelled
\* on their own and what the node serves for the hinted coins.
unitVars == <<sendtx, program, hinted, api>>

vars ==
  <<db, txn, chain, nreorg, watcher, key_future, req, task, last_call, match,
    world, resolver, guard, sendtx, program, hinted, api>>

\* Asset rows. The table is a function from the coin ids that have a row.
AssetRows ==
  [asset_type : {"did", "nft"}, confirmed_height : Heights,
   spent_height : Heights, p2_puzzle_hash : Addresses]

\* Block rows; the table is a set of rows.
BlockRow(hash, height, prev_hash, is_tx) ==
  [hash |-> hash, height |-> height, prev_hash |-> prev_hash, is_tx |-> is_tx]

EmptyDb ==
  [asset |-> <<>>, address_sync |-> <<>>, block |-> {}, singletonspend |-> <<>>]

\* ------------------------------------------------------------------ db.py

\* save_asset: INSERT OR REPLACE by coin_id.
save_asset(d, coin_id, row) ==
  [d EXCEPT !.asset =
     [c \in (DOMAIN d.asset) \cup {coin_id} |->
        IF c = coin_id THEN row ELSE d.asset[c]]]

\* update_asset_coin_spent_height: spent_height on the rows whose coin_id is
\* in coin_ids, in one transaction.
update_asset_coin_spent_height_all(d, coin_ids, spent_height) ==
  [d EXCEPT !.asset =
     [c \in DOMAIN d.asset |-> [d.asset[c] EXCEPT !.spent_height = spent_height]]]

update_asset_coin_spent_height(d, coin_ids, spent_height) ==
  [d EXCEPT !.asset =
     [c \in DOMAIN d.asset |->
        IF c \in coin_ids
          THEN [d.asset[c] EXCEPT !.spent_height = spent_height]
          ELSE d.asset[c]]]

\* save_address_sync_height: INSERT OR REPLACE by address.
save_address_sync_height_below(d, address, height) ==
  [d EXCEPT !.address_sync =
     [a \in (DOMAIN d.address_sync) \cup {address} |->
        IF a = address THEN height - 1 ELSE d.address_sync[a]]]

save_address_sync_height(d, address, height) ==
  [d EXCEPT !.address_sync =
     [a \in (DOMAIN d.address_sync) \cup {address} |->
        IF a = address THEN height ELSE d.address_sync[a]]]

\* reorg, first statement: delete(Asset).where(confirmed_height > block_height)
reorg_delete_asset_ge(d, block_height) ==
  [d EXCEPT !.asset =
     [c \in {x \in DOMAIN d.asset : d.asset[x].confirmed_height < block_height}
        |-> d.asset[c]]]

reorg_delete_asset(d, block_height) ==
  [d EXCEPT !.asset =
     [c \in {x \in DOMAIN d.asset : d.asset[x].confirmed_height <= block_height}
        |-> d.asset[c]]]

\* reorg, second statement:
\* update(Asset).where(spent_height > block_height).values(spent_height=0)
reorg_clear_spent(d, block_height) ==
  [d EXCEPT !.asset =
     [c \in DOMAIN d.asset |->
        IF d.asset[c].spent_height > block_height
          THEN [d.asset[c] EXCEPT !.spent_height = 0]
          ELSE d.asset[c]]]

\* reorg, third statement:
\* update(AddressSync).where(height > block_height).values(height=block_height)
reorg_clamp_address_sync_plus1(d, block_height) ==
  [d EXCEPT !.address_sync =
     [a \in DOMAIN d.address_sync |->
        IF d.address_sync[a] > block_height + 1
          THEN block_height + 1
          ELSE d.address_sync[a]]]

reorg_clamp_address_sync(d, block_height) ==
  [d EXCEPT !.address_sync =
     [a \in DOMAIN d.address_sync |->
        IF d.address_sync[a] > block_height
          THEN block_height
          ELSE d.address_sync[a]]]

\* reorg, fourth statement: delete(Block).where(height > block_height)
reorg_delete_block_tip(d, block_height) ==
  [d EXCEPT !.block =
     {b \in d.block :
        \/ b.height <= block_height
        \/ \E o \in d.block : o.height > b.height}]

reorg_delete_block(d, block_height) ==
  [d EXCEPT !.block = {b \in d.block : b.height <= block_height}]

\* The k-th statement of reorg's transaction.
reorg_statement(k, d, block_height) ==
  CASE k = 1 -> reorg_delete_asset(d, block_height)
    [] k = 2 -> reorg_clear_spent(d, block_height)
    [] k = 3 -> reorg_clamp_address_sync(d, block_height)
    [] k = 4 -> reorg_delete_block(d, block_height)

ReorgStatements == 4

\* reorg as a whole: the four statements in order.
reorg(d, block_height) ==
  reorg_statement(4,
    reorg_statement(3,
      reorg_statement(2,
        reorg_statement(1, d, block_height), block_height), block_height),
    block_height)

\* `async with db.transaction()`: a statement executed inside the transaction
\* changes the transaction's working copy, the committed tables stay as they
\* are until the commit.
statement_autocommit(committed, work) == work

statement_in_transaction(committed, work) == committed

\* No reorg call is in progress and none has returned.
IdleTxn ==
  [status |-> "idle", block_height |-> 0, step |-> 0,
   pre |-> EmptyDb, work |-> EmptyDb]

\* ------------------------------------------------ the chain RPC source

\* How many blocks the full node's chain may hold above genesis, and how many
\* times the node may switch to another fork.
MaxPeak == 4

MaxReorgs == 1

\* The coins hinted to the watched address that the chain may create.
ChainCoins == {"c1"}

\* What a block holds: whether it is a transaction block (its timestamp is
\* set), the coins it adds and the coins it removes. The transaction blocks
\* of the modelled chain are the ones that create or spend a hinted coin.
BlockContents ==
  {b \in [is_tx : BOOLEAN, additions : SUBSET ChainCoins,
          removals : SUBSET ChainCoins] :
     /\ b.is_tx <=> (b.additions # {} \/ b.removals # {})
     /\ b.additions \cap b.removals = {}}

Genesis == [is_tx |-> FALSE, additions |-> {}, removals |-> {}]

\* The block of height h is chain[h + 1].
peak == Len(chain) - 1

\* A header hash commits to the block and to all its ancestors: it is the
\* chain up to and including the block. The hash below genesis is <<>>.
header_hash(c, h) == SubSeq(c, 1, h + 1)

\* The height at which coin is confirmed (spent) on chain c, -1 if it is not.
confirmed_block_index(c, coin) ==
  IF \E i \in 1..Len(c) : coin \in c[i].additions
    THEN (CHOOSE i \in 1..Len(c) : coin \in c[i].additions) - 1
    ELSE -1

spent_block_index(c, coin) ==
  IF \E i \in 1..Len(c) : coin \in c[i].removals
    THEN (CHOOSE i \in 1..Len(c) : coin \in c[i].removals) - 1
    ELSE -1

\* Block b may follow chain c: a coin is added once, and removed once, in or
\* after the block that adds it.
MayFollow(c, b) ==
  /\ \A coin \in b.additions : confirmed_block_index(c, coin) = -1
  /\ \A coin \in b.removals :
       /\ spent_block_index(c, coin) = -1
       /\ confirmed_block_index(c, coin) # -1 \/ coin \in b.additions

\* get_blockchain_state()['peak']['height'] and get_block_number().
get_peak_height == peak

get_block_number == peak

\* get_block_record_by_height(h), for a height the chain has.
get_block_record_by_height(h) ==
  [hash |-> header_hash(chain, h), height |-> h,
   prev_hash |-> header_hash(chain, h - 1), is_tx |-> chain[h + 1].is_tx]

\* get_additions_and_removals(header_hash): the removed coins' ids.
get_removals(hash) == hash[Len(hash)].removals

\* get_coin_records_by_hint(address, include_spent_coins=False, start_height,
\* end_height): the unspent coins hinted to the address that were confirmed
\* at a height in [start_height, end_height), in the order of their ids.
SeqOfSet(S) ==
  IF "c1" \in S /\ "c2" \in S THEN <<"c1", "c2">>
  ELSE IF "c1" \in S THEN <<"c1">>
  ELSE IF "c2" \in S THEN <<"c2">>
  ELSE <<>>

get_coin_records_by_hint(start_height, end_height) ==
  LET found ==
        {coin \in DOMAIN hinted :
           /\ confirmed_block_index(chain, coin) >= start_height
           /\ confirmed_block_index(chain, coin) < end_height
           /\ spent_block_index(chain, coin) = -1}
      ids == SeqOfSet(found)
  IN [i \in 1..Len(ids) |->
        [coin |-> ids[i],
         confirmed_block_index |-> confirmed_block_index(chain, ids[i])]]

\* The node finds or receives the next block of its chain.
NodeNewBlock ==
  /\ peak < MaxPeak
  /\ \E b \in BlockContents :
       /\ MayFollow(chain, b)
       /\ chain' = Append(chain, b)
  /\ UNCHANGED nreorg

\* The node switches to a fork that leaves its chain after height f.
NodeReorg ==
  /\ nreorg < MaxReorgs
  /\ \E f \in 0..(peak - 1), b \in BlockContents :
       LET kept == SubSeq(chain, 1, f + 1)
       IN /\ b # chain[f + 2]
          /\ MayFollow(kept, b)
          /\ chain' = Append(kept, b)
  /\ nreorg' = nreorg + 1

\* ------------------------------------------------ did.py, nft.py, handle_coin

\* Tree hashes are modelled by the structure they commit to: two puzzles
\* hash the same exactly when they are curried from the same values.
EmptyListHash == "nil"

RecoveryListHashes == {EmptyListHash, "rl"}

LauncherIds == {"L"}

\* get_did_inner_puzzle_hash: DID_INNERPUZ_MOD curried with the address in
\* the place of the p2 puzzle, hashed with the address taken as a hash.
get_did_inner_puzzle_hash(address, recovery_list_hash, num_verification, launcher_id) ==
  <<"did", address, recovery_list_hash, num_verification, launcher_id>>

\* to_full_pzh: SINGLETON_TOP_LAYER_MOD curried with the launcher's struct
\* and the inner puzzle hash.
to_full_pzh(inner_puzzle_hash, launcher_id) ==
  <<"singleton", launcher_id, inner_puzzle_hash>>

\* The conditions a p2 puzzle emits: create-coin (51, puzzle hash, amount)
\* and owner change (-10, new DID id; "" is the empty atom).
Conditions ==
  [code : {51}, puzzle_hash : Addresses, amount : {1, 2}]
    \cup [code : {-10}, did : {"", "D2"}]

\* A parent coin spend, as far as the matchers read it: which mods the puzzle
\* reveal uncurries to, the curried values, and the conditions its p2 puzzle
\* gives on the solution.
DidSpends ==
  [top : {"singleton"}, inner : {"did"}, launcher_id : LauncherIds,
   p2_puzzle : Addresses, recovery_list_hash : RecoveryListHashes,
   num_verification : {0, 1}, supports_did : {FALSE}, owner_did : {""},
   conditions : {<<>>}]

NftSpends(conds) ==
  [top : {"singleton"}, inner : {"nft"}, launcher_id : LauncherIds,
   p2_puzzle : Addresses, recovery_list_hash : {EmptyListHash},
   num_verification : {0}, supports_did : BOOLEAN, owner_did : {"", "D1"},
   conditions : conds]

OtherSpends ==
  [top : {"singleton", "other"}, inner : {"other"}, launcher_id : LauncherIds,
   p2_puzzle : {"A"}, recovery_list_hash : {EmptyListHash},
   num_verification : {0}, supports_did : {FALSE}, owner_did : {""},
   conditions : {<<>>}]

NoMatchRaises == [kind |-> "raise"]

NoMatch == [kind |-> "none"]

Raised == [kind |-> "raise"]

\* get_did_info_from_coin_spend. The returned p2_puzzle_hash is the tree hash
\* of the p2 puzzle curried into the parent's puzzle reveal. On the
\* recovery-cleared path num_verification has been rebound to the int 0, and
\* the num_verification.as_int() of the return statement raises.
get_did_info_from_coin_spend(coin_puzzle_hash, parent_cs, address) ==
  IF parent_cs.top # "singleton" \/ parent_cs.inner # "did"
    THEN NoMatch
    ELSE
      LET launcher_id == parent_cs.launcher_id
          full_puzzle_hash ==
            to_full_pzh(
              get_did_inner_puzzle_hash(address, parent_cs.recovery_list_hash,
                parent_cs.num_verification, launcher_id), launcher_id)
          full_empty_puzzle_hash ==
            to_full_pzh(
              get_did_inner_puzzle_hash(address, EmptyListHash, 0, launcher_id),
              launcher_id)
      IN IF coin_puzzle_hash = full_puzzle_hash
           THEN [kind |-> "did", did_id |-> launcher_id,
                 p2_puzzle_hash |-> parent_cs.p2_puzzle,
                 recovery_list_hash |-> parent_cs.recovery_list_hash,
                 num_verification |-> parent_cs.num_verification]
           ELSE IF coin_puzzle_hash # full_empty_puzzle_hash
             THEN NoMatch
             ELSE Raised

\* get_metadata_and_phs: the puzzle hash of the first create-coin condition
\* whose amount is 1; "" when there is none (the assert then fails).
RECURSIVE puzhash_for_derivation_any_amount(_)
puzhash_for_derivation_any_amount(conditions) ==
  IF conditions = <<>> THEN ""
  ELSE IF Head(conditions).code = 51
    THEN Head(conditions).puzzle_hash
    ELSE puzhash_for_derivation_any_amount(Tail(conditions))

RECURSIVE puzhash_for_derivation(_)
puzhash_for_derivation(conditions) ==
  IF conditions = <<>> THEN ""
  ELSE IF Head(conditions).code = 51 /\ Head(conditions).amount = 1
    THEN Head(conditions).puzzle_hash
    ELSE puzhash_for_derivation(Tail(conditions))

\* get_new_owner_did: the DID id of the last owner-change condition; "none"
\* (None) when there is no such condition.
get_new_owner_did_unread(conditions) == "none"

RECURSIVE get_new_owner_did(_)
get_new_owner_did(conditions) ==
  IF conditions = <<>> THEN "none"
  ELSE LET later == get_new_owner_did(Tail(conditions))
       IN IF later # "none" THEN later
          ELSE IF Head(conditions).code = -10 THEN Head(conditions).did
          ELSE "none"

\* The gate of get_nft_info_from_coin_spend: `if new_p2_puzhash != address`.
nft_gate_open(new_p2_puzhash, address) == TRUE

nft_gate(new_p2_puzhash, address) == new_p2_puzhash = address

\* get_nft_info_from_coin_spend. nft_did_id "none" is None.
get_nft_info_from_coin_spend(parent_cs, address) ==
  IF parent_cs.top # "singleton" \/ parent_cs.inner # "nft"
    THEN NoMatch
    ELSE
      LET new_p2_puzhash == puzhash_for_derivation(parent_cs.conditions)
          old_did_id ==
            IF parent_cs.owner_did = "" THEN "none" ELSE parent_cs.owner_did
          changed == get_new_owner_did(parent_cs.conditions)
          new_did_id ==
            IF ~parent_cs.supports_did THEN "none"
            ELSE IF changed = "none" THEN old_did_id
            ELSE IF changed = "" THEN "none"
            ELSE changed
      IN IF new_p2_puzhash = "" THEN Raised
         ELSE IF ~nft_gate(new_p2_puzhash, address) THEN NoMatch
         ELSE [kind |-> "nft", nft_id |-> parent_cs.launcher_id,
               p2_puzzle_hash |-> new_p2_puzhash, nft_did_id |-> new_did_id]

\* handle_coin: the DID matcher, then the NFT matcher; a match is saved as an
\* Asset with spent_height 0. The result names what happened, the tables and
\* the nft_did_id of the Asset built for an NFT ("none" is None).
handle_coin(address, coin_record, coin_puzzle_hash, parent_cs, d) ==
  LET did_info == get_did_info_from_coin_spend(coin_puzzle_hash, parent_cs, address)
      nft_info == get_nft_info_from_coin_spend(parent_cs, address)
      row(type, p2) ==
        [asset_type |-> type,
         confirmed_height |-> coin_record.confirmed_block_index,
         spent_height |-> 0, p2_puzzle_hash |-> p2]
  IN IF did_info.kind = "raise"
       THEN [outcome |-> "raised", db |-> d, nft_did_id |-> "none"]
     ELSE IF did_info.kind = "did"
       THEN [outcome |-> "saved",
             db |-> save_asset(d, coin_record.coin, row("did", did_info.p2_puzzle_hash)),
             nft_did_id |-> "none"]
     ELSE IF nft_info.kind = "raise"
       THEN [outcome |-> "raised", db |-> d, nft_did_id |-> "none"]
     ELSE IF nft_info.kind = "nft"
       THEN [outcome |-> "saved",
             db |-> save_asset(d, coin_record.coin, row("nft", nft_info.p2_puzzle_hash)),
             nft_did_id |-> nft_info.nft_did_id]
     ELSE [outcome |-> "skipped", db |-> d, nft_did_id |-> "none"]

\* No handle_coin call is made on its own.
NoInput ==
  [address |-> "A", coin_puzzle_hash |-> <<>>, parent_cs |-> <<>>,
   outcome |-> "none", nft_did_id |-> "none"]

\* The parent spend and the puzzle hash of the coins of the chain, as the
\* node serves them.
ParentSpendOf(coin) == hinted[coin].parent_cs

PuzzleHashOf(coin) == hinted[coin].puzzle_hash

\* In the running system c1 is an NFT whose parent spend sends it to
\* address A.
HintedNft ==
  [coin \in ChainCoins |->
     [puzzle_hash |-> <<"nft", coin>>,
      parent_cs |->
        [top |-> "singleton", inner |-> "nft", launcher_id |-> "L",
         p2_puzzle |-> "B", recovery_list_hash |-> EmptyListHash,
         num_verification |-> 0, supports_did |-> FALSE, owner_did |-> "",
         conditions |-> <<[code |-> 51, puzzle_hash |-> "A", amount |-> 1]>>]]]

\* ------------------------------------------------ watcher.py

NoBlock == BlockRow(<<>>, -1, <<>>, FALSE)

StoppedWatcher ==
  [pc |-> "stopped", start_height |-> 0, prev_block |-> NoBlock, block |-> NoBlock]

\* get_latest_blocks(db, 1): the stored block of the greatest height.
get_latest_block(d) ==
  CHOOSE b \in d.block : \A o \in d.block : o.height <= b.height

\* get_latest_tx_block_number: the greatest height of a stored transaction
\* block, -1 (None) when there is none.
get_latest_tx_block_number_of_any(d) ==
  IF d.block # {}
    THEN (CHOOSE b \in d.block : \A o \in d.block : o.height <= b.height).height
    ELSE -1

get_latest_tx_block_number(d) ==
  IF \E b \in d.block : b.is_tx
    THEN (CHOOSE b \in d.block :
            b.is_tx /\ \A o \in d.block : o.is_tx => o.height <= b.height).height
    ELSE -1

\* `start_height = prev_block.height + 1`
start_height_at(prev_block) == prev_block.height

start_height_after(prev_block) == prev_block.height + 1

\* Watcher.start up to the loop: the previous block is the latest stored one
\* and the first height is the one above it; with no block stored, the first
\* height is the node's peak.
WatcherStart ==
  /\ watcher.pc = "stopped"
  /\ watcher' =
       IF db.block # {}
         THEN [pc |-> "loop",
               start_height |-> start_height_after(get_latest_block(db)),
               prev_block |-> get_latest_block(db), block |-> NoBlock]
         ELSE [pc |-> "loop", start_height |-> get_peak_height,
               prev_block |-> NoBlock, block |-> NoBlock]
  /\ UNCHANGED <<dbVars, nodeVars, match, resolveVars, unitVars, guard, syncVars>>

\* The comparison of line 87: there is a previous block and its hash is not
\* the fetched block's prev_hash.
prev_hash_unchecked(prev_block, block) == FALSE

prev_hash_mismatch(prev_block, block) ==
  prev_block # NoBlock /\ prev_block.hash # block.prev_hash

\* One pass of the loop whose comparison finds no reorg: the block record of
\* the local height is fetched once the peak has reached it.
WatcherFetch ==
  /\ watcher.pc = "loop"
  /\ watcher.start_height <= get_peak_height
  /\ LET block == get_block_record_by_height(watcher.start_height)
     IN /\ ~prev_hash_mismatch(watcher.prev_block, block)
        /\ watcher' =
             [watcher EXCEPT
                !.block = block,
                !.pc = IF block.is_tx THEN "new_block" ELSE "save_block"]
  /\ UNCHANGED <<dbVars, nodeVars, match, resolveVars, unitVars, guard, syncVars>>

\* One pass of the loop whose comparison finds a reorg. With check_height > 0
\* the scan calls get_block_by_height(check_height) without the db argument,
\* with check_height = 0 it goes on to reorg_db(block_height) without the db
\* argument: either call raises TypeError, which ends Watcher.start before
\* any statement reaches the database.
WatcherReorg ==
  /\ watcher.pc = "loop"
  /\ watcher.start_height <= get_peak_height
  /\ prev_hash_mismatch(watcher.prev_block,
                        get_block_record_by_height(watcher.start_height))
  /\ watcher' = StoppedWatcher
  /\ UNCHANGED <<dbVars, nodeVars, match, resolveVars, unitVars, guard, syncVars>>

\* new_block: the removals of get_additions_and_removals(block.hash), which
\* the header hash determines, and
\* update_asset_coin_spent_height(db, removals_id, block.height).
WatcherNewBlock ==
  /\ watcher.pc = "new_block"
  /\ db' = update_asset_coin_spent_height(
             db, get_removals(watcher.block.hash), watcher.block.height)
  /\ watcher' = [watcher EXCEPT !.pc = "save_block"]
  /\ UNCHANGED <<txn, nodeVars, match, resolveVars, unitVars, guard, syncVars>>

\* `start_height += 1`
next_start_height_skips(start_height) == start_height + 2

next_start_height(start_height) == start_height + 1

\* save_block, prev_block = block, start_height += 1. The insert fails on a
\* stored hash or height, which ends Watcher.start.
WatcherSaveBlock ==
  /\ watcher.pc = "save_block"
  /\ IF \E b \in db.block :
          b.hash = watcher.block.hash \/ b.height = watcher.block.height
       THEN /\ watcher' = StoppedWatcher
            /\ UNCHANGED db
       ELSE /\ db' = [db EXCEPT !.block = @ \cup {watcher.block}]
            /\ watcher' =
                 [pc |-> "loop",
                  start_height |-> next_start_height(watcher.start_height),
                  prev_block |-> watcher.block, block |-> NoBlock]
  /\ UNCHANGED <<txn, nodeVars, match, resolveVars, unitVars, guard, syncVars>>

\* A pass of the loop that finds the local height above the peak:
\* time.sleep(3) and `continue`.
WatcherWait ==
  /\ watcher.pc = "loop"
  /\ watcher.start_height > get_peak_height
  /\ watcher' = [watcher EXCEPT !.pc = "sleep"]
  /\ UNCHANGED <<dbVars, nodeVars, match, resolveVars, unitVars, guard, syncVars>>

\* A pass of the loop whose get_block_record_by_height(start_height) raises:
\* the error is logged, time.sleep(3) and `continue`.
WatcherFetchFailsAndSkips ==
  /\ watcher.pc = "loop"
  /\ watcher.start_height <= get_peak_height
  /\ watcher' = [watcher EXCEPT !.pc = "sleep",
                                !.start_height = watcher.start_height + 1]
  /\ UNCHANGED <<dbVars, nodeVars, match, resolveVars, unitVars, guard, syncVars>>

WatcherFetchFails ==
  /\ watcher.pc = "loop"
  /\ watcher.start_height <= get_peak_height
  /\ watcher' = [watcher EXCEPT !.pc = "sleep"]
  /\ UNCHANGED <<dbVars, nodeVars, match, resolveVars, unitVars, guard, syncVars>>

\* The sleep is over: the next pass of the loop begins.
WatcherWake ==
  /\ watcher.pc = "sleep"
  /\ watcher' = [watcher EXCEPT !.pc = "loop"]
  /\ UNCHANGED <<dbVars, nodeVars, match, resolveVars, unitVars, guard, syncVars>>

\* The watcher process is stopped at any point; WatcherStart starts it again.
WatcherStop ==
  /\ watcher.pc # "stopped"
  /\ watcher' = StoppedWatcher
  /\ UNCHANGED <<dbVars, nodeVars, match, resolveVars, unitVars, guard, syncVars>>

\* ------------------------------------------------ singleflight.py, sync.py

\* How many list_assets requests may be in progress at once.
NumRequests == 2

Reqs == 1..NumRequests

\* The addresses whose assets are requested.
SyncAddresses == {"A"}

IdleReq == [pc |-> "idle", owner |-> 0]

\* What a completed call computed: the latest stored transaction block's
\* height it read (-1 is None) and its end_height; and, per height, how
\* many hint queries of the calls that stored a sync height covered it.
NoCall ==
  [recorded |-> FALSE, has |-> FALSE, end_height |-> 0, latest_tx |-> -1,
   covered |-> [h \in 1..MaxPeak |-> 0]]

\* No call has completed, and the calls that complete are recorded.
NoCallYet == [NoCall EXCEPT !.recorded = TRUE]

\* A sync_user_assets call: its position, its locals and, for the claims,
\* what the call completed before it for the same address computed.
NoTask ==
  [pc |-> "none", address |-> "A", start_height |-> 0, end_height |-> 0,
   latest_tx |-> -1, coin_records |-> <<>>, outcome |-> "none",
   prev |-> NoCall]

\* `if key in self.key_future`
sf_never_in_flight(key) == FALSE

sf_in_flight(key) == key \in DOMAIN key_future

\* SingleFlight.do up to its await: the request joins the work in flight for
\* its key, or starts the work and registers it. (A request that finds the
\* key registered with work already done returns at once and changes
\* nothing.) The requests are interchangeable: of the idle ones, the one of
\* the least number is the next to call.
SfDo(r) ==
  /\ req[r].pc = "idle"
  /\ \A x \in Reqs : req[x].pc = "idle" => r <= x
  /\ \E address \in SyncAddresses :
       IF sf_in_flight(address)
         THEN /\ task[key_future[address]].pc # "done"
              /\ req' = [req EXCEPT ![r] =
                           [pc |-> "await_shared", owner |-> key_future[address]]]
              /\ UNCHANGED <<key_future, task>>
         ELSE /\ task' = [task EXCEPT ![r] =
                            [NoTask EXCEPT !.pc = "start", !.address = address,
                                           !.prev = last_call[address]]]
              /\ key_future' =
                   [k \in (DOMAIN key_future) \cup {address} |->
                      IF k = address THEN r ELSE key_future[k]]
              /\ req' = [req EXCEPT ![r] = [pc |-> "await_own", owner |-> r]]
  /\ UNCHANGED <<dbVars, nodeVars, match, resolveVars, unitVars, guard, watcher, last_call>>

\* `start_height=start_height, end_height=end_height+1`: the end of the
\* range of the hint query, which the node takes as exclusive.
hint_end_height_short(end_height) == end_height

hint_end_height(end_height) == end_height + 1

\* The work of request r ends with the outcome: the request that started it
\* is made ready to run its `finally`, the requests that joined it get the
\* result or the exception and return, and a call that returned is recorded
\* per address where calls are recorded.
Completed(r, t, outcome) ==
  /\ task' = [task EXCEPT ![r] = [t EXCEPT !.pc = "done", !.outcome = outcome]]
  /\ req' = [x \in Reqs |->
               IF req[x].owner = r /\ req[x].pc = "await_own"
                 THEN [req[x] EXCEPT !.pc = "resume_own"]
               ELSE IF req[x].owner = r /\ req[x].pc = "await_shared"
                 THEN IdleReq
               ELSE req[x]]
  /\ last_call' =
       IF outcome = "raised" \/ ~last_call[t.address].recorded THEN last_call
       ELSE [last_call EXCEPT ![t.address] =
               [recorded |-> TRUE, has |-> TRUE, end_height |-> t.end_height,
                latest_tx |-> t.latest_tx,
                covered |->
                  [h \in 1..MaxPeak |->
                     IF /\ outcome = "synced"
                        /\ t.start_height <= h
                        /\ h < hint_end_height(t.end_height)
                       THEN last_call[t.address].covered[h] + 1
                       ELSE last_call[t.address].covered[h]]]]

\* `if start_height >= end_height: return`
is_noop_off_by_one(start_height, end_height) == start_height > end_height + 1

is_noop(start_height, end_height) == start_height >= end_height

\* sync_user_assets once start_height and end_height are known: return, or
\* go on to the hint query.
Resolved(r, t) ==
  IF is_noop(t.start_height, t.end_height)
    THEN /\ Completed(r, t, "noop")
         /\ UNCHANGED <<dbVars, key_future>>
    ELSE /\ task' = [task EXCEPT ![r] = [t EXCEPT !.pc = "hint"]]
         /\ UNCHANGED <<dbVars, key_future, req, last_call>>

\* sync_user_assets: get_address_sync_height and get_latest_tx_block_number.
SyncStart(r) ==
  /\ task[r].pc = "start"
  /\ LET address == task[r].address
         start_height ==
           IF address \in DOMAIN db.address_sync
             THEN db.address_sync[address] + 1
             ELSE 1
         latest == get_latest_tx_block_number(db)
         t == [task[r] EXCEPT !.start_height = start_height,
                              !.latest_tx = latest, !.end_height = latest]
     IN IF latest = -1
          THEN /\ task' = [task EXCEPT ![r] = [t EXCEPT !.pc = "tip"]]
               /\ UNCHANGED <<dbVars, key_future, req, last_call>>
          ELSE Resolved(r, t)
  /\ UNCHANGED <<nodeVars, match, resolveVars, unitVars, guard, watcher>>

\* sync_user_assets: end_height = get_block_number() when no transaction
\* block is stored.
SyncTip(r) ==
  /\ task[r].pc = "tip"
  /\ Resolved(r, [task[r] EXCEPT !.end_height = get_block_number])
  /\ UNCHANGED <<nodeVars, match, resolveVars, unitVars, guard, watcher>>

\* sync_user_assets: get_coin_records_by_hint over start_height up to and
\* excluding end_height + 1, and the parent spend of every record.
SyncHint(r) ==
  /\ task[r].pc = "hint"
  /\ LET coin_records ==
           get_coin_records_by_hint(task[r].start_height,
                                    hint_end_height(task[r].end_height))
     IN task' = [task EXCEPT ![r] =
                   [@ EXCEPT !.coin_records = coin_records,
                             !.pc = IF coin_records = <<>> THEN "save_height"
                                    ELSE "coins"]]
  /\ UNCHANGED <<dbVars, nodeVars, match, resolveVars, unitVars, guard, watcher, key_future, req, last_call>>

\* sync_user_assets: handle_coin on the next record.
SyncHandleCoin(r) ==
  /\ task[r].pc = "coins"
  /\ LET coin_record == Head(task[r].coin_records)
         res == handle_coin(task[r].address, coin_record,
                            PuzzleHashOf(coin_record.coin),
                            ParentSpendOf(coin_record.coin), db)
         rest == Tail(task[r].coin_records)
     IN IF res.outcome = "raised"
          THEN /\ Completed(r, task[r], "raised")
               /\ UNCHANGED <<db, key_future>>
          ELSE /\ db' = res.db
               /\ task' = [task EXCEPT ![r] =
                             [@ EXCEPT !.coin_records = rest,
                                       !.pc = IF rest = <<>> THEN "save_height"
                                              ELSE "coins"]]
               /\ UNCHANGED <<key_future, req, last_call>>
  /\ UNCHANGED <<txn, nodeVars, match, resolveVars, unitVars, guard, watcher>>

\* sync_user_assets: save_address_sync_height(db, address, end_height).
SyncSaveHeight(r) ==
  /\ task[r].pc = "save_height"
  /\ db' = save_address_sync_height(db, task[r].address, task[r].end_height)
  /\ Completed(r, task[r], "synced")
  /\ UNCHANGED <<txn, nodeVars, match, resolveVars, unitVars, guard, watcher, key_future>>

\* SingleFlight.do after its await: the request that started the work
\* removes the key (`finally: del self.key_future[key]`) and returns.
SfReturn(r) ==
  /\ req[r].pc = "resume_own"
  /\ key_future' =
       [k \in (DOMAIN key_future) \ {task[r].address} |-> key_future[k]]
  /\ task' = [task EXCEPT ![r] = NoTask]
  /\ req' = [req EXCEPT ![r] = IdleReq]
  /\ UNCHANGED <<dbVars, nodeVars, match, resolveVars, unitVars, guard, watcher, last_call>>

\* ------------------------------------- singleflight.py: SingleFlight.do

\* How many requests may be inside or about to enter SingleFlight.do, and
\* how many units of work are started in all.
NumCallers == 3

MaxWorks == 3

Callers == 1..NumCallers

\* The keys of api.py: `address` in list_assets and
\* `b'singleton' + singleton_id` in get_latest_singleton.
GuardKeys == {"address", "singleton"}

\* What a caller of do gets: the result or the exception of a unit of work.
NoOutcome == [kind |-> "none", work |-> 0]

\* A request outside do. Inside, key is its key, fut the unit of work it
\* awaits and started tells that it started that work itself.
IdleCaller ==
  [pc |-> "idle", key |-> "", fut |-> 0, started |-> FALSE, got |-> NoOutcome]

\* SingleFlight(): an empty key_future. work is the sequence of the units of
\* work started so far, each a future with its key.
NoGuard ==
  [key_future |-> <<>>, caller |-> [r \in Callers |-> IdleCaller],
   work |-> <<>>]

\* `if key in self.key_future`
registered_never(key_future_, key) == FALSE

registered(key_future_, key) == key \in DOMAIN key_future_

\* `finally: del self.key_future[key]`, run when the awaited work returned
\* and when it raised.
unregister_on_return(key_future_, key, kind) ==
  IF kind = "raised" THEN key_future_
  ELSE [k \in (DOMAIN key_future_) \ {key} |-> key_future_[k]]

unregister(key_future_, key, kind) ==
  [k \in (DOMAIN key_future_) \ {key} |-> key_future_[k]]

\* The outcome of the unit of work w, once it is done.
outcome_of(g, w) == [kind |-> g.work[w].outcome, work |-> w]

\* do(key, coro_lambda) up to its await. With the key registered the caller
\* awaits the registered future, which hands over its outcome at once when
\* the work is done already; otherwise the caller starts the work,
\* registers it and awaits it.
GuardDo(r, key) ==
  /\ guard.caller[r].pc = "idle"
  /\ IF registered(guard.key_future, key)
       THEN LET w == guard.key_future[key]
            IN guard' =
                 [guard EXCEPT
                    !.caller[r] =
                      IF guard.work[w].status = "done"
                        THEN [pc |-> "left", key |-> key, fut |-> w,
                              started |-> FALSE, got |-> outcome_of(guard, w)]
                        ELSE [pc |-> "await_shared", key |-> key, fut |-> w,
                              started |-> FALSE, got |-> NoOutcome]]
       ELSE /\ Len(guard.work) < MaxWorks
            /\ LET w == Len(guard.work) + 1
               IN guard' =
                    [guard EXCEPT
                       !.work = Append(@, [key |-> key, status |-> "running",
                                           outcome |-> "none"]),
                       !.key_future =
                         [k \in (DOMAIN guard.key_future) \cup {key} |->
                            IF k = key THEN w ELSE guard.key_future[k]],
                       !.caller[r] =
                         [pc |-> "await_own", key |-> key, fut |-> w,
                          started |-> TRUE, got |-> NoOutcome]]

\* The unit of work w returns or raises: its future is done and the callers
\* that await it are made ready to run.
GuardWorkEnds(w, kind) ==
  /\ w \in 1..Len(guard.work)
  /\ guard.work[w].status = "running"
  /\ guard' =
       [guard EXCEPT
          !.work[w] = [@ EXCEPT !.status = "done", !.outcome = kind],
          !.caller =
            [r \in Callers |->
               IF guard.caller[r].fut = w /\ guard.caller[r].pc = "await_own"
                 THEN [guard.caller[r] EXCEPT !.pc = "ready_own"]
               ELSE IF guard.caller[r].fut = w
                       /\ guard.caller[r].pc = "await_shared"
                 THEN [guard.caller[r] EXCEPT !.pc = "ready_shared"]
               ELSE guard.caller[r]]]

\* do after `res = await fut` in the caller that started the work: the
\* finally clause, then the return or the exception.
GuardResumeOwn(r) ==
  /\ guard.caller[r].pc = "ready_own"
  /\ LET c == guard.caller[r]
     IN guard' =
          [guard EXCEPT
             !.key_future = unregister(@, c.key, guard.work[c.fut].outcome),
             !.caller[r] = [c EXCEPT !.pc = "left",
                                     !.got = outcome_of(guard, c.fut)]]

\* do after `return await self.key_future[key]` in a caller that found the
\* key registered.
GuardResumeShared(r) ==
  /\ guard.caller[r].pc = "ready_shared"
  /\ LET c == guard.caller[r]
     IN guard' =
          [guard EXCEPT
             !.caller[r] = [c EXCEPT !.pc = "left",
                                     !.got = outcome_of(guard, c.fut)]]

\* The request that called do is over.
GuardLeave(r) ==
  /\ guard.caller[r].pc = "left"
  /\ guard' = [guard EXCEPT !.caller[r] = IdleCaller]

\* ------------------------- api.py: list_assets and get_latest_singleton

\* How many requests may be in progress at once, and how many syncs and
\* resolutions they start in all.
NumApiRequests == 2

MaxApiWorks == 2

ApiRequests == 1..NumApiRequests

\* app.state.chains by id: config.py lists mainnet (id 1, prefix xch) and
\* testnet10 (id 2, prefix txch).
ChainIds == {"0x01", "0x02"}

network_prefix(chain_id) == IF chain_id = "0x01" THEN "xch" ELSE "txch"

\* An address string, by what the address codec makes of it: a string that
\* does not decode, or the encoding of a prefix and a puzzle hash.
AddressInputs ==
  {[ok |-> FALSE, prefix |-> "", puzzle_hash |-> ""]}
    \cup [ok : {TRUE}, prefix : {"xch", "txch"}, puzzle_hash : {"A"}]

\* decode_puzzle_hash of utils/bech32m.py: the prefix and the puzzle hash,
\* ValueError for a string that does not decode.
decode_puzzle_hash(address) ==
  IF address.ok
    THEN [kind |-> "ok", prefix |-> address.prefix,
          puzzle_hash |-> address.puzzle_hash]
    ELSE [kind |-> "ValueError", prefix |-> "", puzzle_hash |-> ""]

\* decode_address: HTTPException(400, "Invalid Address") for a string that
\* does not decode and for another prefix than the chain's.
decode_address(address, prefix) ==
  LET decoded == decode_puzzle_hash(address)
  IN IF decoded.kind = "ValueError" \/ decoded.prefix # prefix
       THEN [kind |-> "http", status_code |-> 400, detail |-> "Invalid Address",
             puzzle_hash |-> ""]
       ELSE [kind |-> "ok", status_code |-> 0, detail |-> "",
             puzzle_hash |-> decoded.puzzle_hash]

\* Strings are sequences of characters; a byte is the pair of its digits.
HexDigits == {"0", "1", "a", "b"}

\* `len(singleton_id) != 32`
singleton_id_length == 32

\* How far from 32 bytes the singleton ids of the requests may be.
IdSlack == 1

\* bytes.fromhex: two hex digits per byte; ValueError otherwise.
fromhex(str) ==
  IF Len(str) % 2 = 0 /\ \A i \in 1..Len(str) : str[i] \in HexDigits
    THEN [ok |-> TRUE,
          bytes |-> [k \in 1..(Len(str) \div 2) |-> <<str[2 * k - 1], str[2 * k]>>]]
    ELSE [ok |-> FALSE, bytes |-> <<>>]

\* hexstr_to_bytes: the string without a leading 0x or 0X, through
\* bytes.fromhex.
hexstr_to_bytes(input_str) ==
  IF Len(input_str) >= 2 /\ input_str[1] = "0" /\ input_str[2] \in {"x", "X"}
    THEN fromhex(SubSeq(input_str, 3, Len(input_str)))
    ELSE fromhex(input_str)

\* The singleton_id strings of the requests: nothing or 0x, then a
\* number of bytes around 32 (or none), then nothing, half a byte or a byte
\* that is no hex.
SingletonIdInputs ==
  {prefix \o [i \in 1..(2 * n) |-> IF i % 2 = 1 THEN "a" ELSE "b"] \o tail :
     prefix \in {<<>>, <<"0", "x">>},
     n \in {0} \cup ((singleton_id_length - IdSlack)..(singleton_id_length + IdSlack)),
     tail \in {<<>>, <<"a">>, <<"g", "0">>}}

\* The first statements of get_latest_singleton: the bytes of the id, or
\* HTTPException(400, "Invalid singleton ID").
singleton_id_any_length(singleton_id) ==
  LET decoded == hexstr_to_bytes(singleton_id)
  IN IF ~decoded.ok
       THEN [kind |-> "http", status_code |-> 400,
             detail |-> "Invalid singleton ID", bytes |-> <<>>]
       ELSE [kind |-> "ok", status_code |-> 0, detail |-> "",
             bytes |-> decoded.bytes]

singleton_id_bytes(singleton_id) ==
  LET decoded == hexstr_to_bytes(singleton_id)
  IN IF ~decoded.ok \/ Len(decoded.bytes) # singleton_id_length
       THEN [kind |-> "http", status_code |-> 400,
             detail |-> "Invalid singleton ID", bytes |-> <<>>]
       ELSE [kind |-> "ok", status_code |-> 0, detail |-> "",
             bytes |-> decoded.bytes]

\* No response yet. served_from is the chain whose RPC source and database
\* the body of a response was computed from.
NoApiResponse == [status_code |-> 0, detail |-> "", served_from |-> ""]

\* No request in progress.
IdleApiRequest ==
  [pc |-> "idle", endpoint |-> "", chain |-> "", input |-> <<>>,
   response |-> NoApiResponse]

\* work_chain is, per unit of work started through sf, the chain whose id
\* and client the lambda of the starting request holds; rejected is the
\* request that the step before answered with an HTTPException of its
\* validation, if it did.
NoApi ==
  [request |-> [r \in ApiRequests |-> IdleApiRequest], work_chain |-> <<>>,
   rejected |-> IdleApiRequest]

\* A request has entered sf.do(key, ...) for chain_id: the unit of work it
\* started, if it started one, runs on that chain.
EntersDo(r, endpoint, chain_id, input, key) ==
  /\ registered(guard.key_future, key) \/ Len(api.work_chain) < MaxApiWorks
  /\ GuardDo(r, key)
  /\ api' =
       [api EXCEPT
          !.request[r] =
            [pc |-> "in_do", endpoint |-> endpoint, chain |-> chain_id,
             input |-> input, response |-> NoApiResponse],
          !.work_chain =
            IF registered(guard.key_future, key) THEN @
            ELSE Append(@, chain_id),
          !.rejected = IdleApiRequest]

\* The handler raised HTTPException before it reached sf.do: the request
\* is over with that response. One such request is recorded at a time, until
\* the next step of another request.
Rejects(r, endpoint, chain_id, input, res) ==
  /\ api.rejected = IdleApiRequest
  /\ api' =
       [api EXCEPT
          !.rejected =
            [pc |-> "responded", endpoint |-> endpoint, chain |-> chain_id,
             input |-> input,
             response |-> [status_code |-> res.status_code,
                           detail |-> res.detail, served_from |-> ""]]]
  /\ UNCHANGED guard

\* GET /assets?address=...&chain=...: decode_address, then
\* sf.do(address, lambda: sync_user_assets(chain.id, puzzle_hash, chain.client))
\* up to its await.
ApiListAssets(r, address, chain_id) ==
  /\ api.request[r].pc = "idle"
  /\ LET res == decode_address(address, network_prefix(chain_id))
     IN IF res.kind = "http"
          THEN Rejects(r, "assets", chain_id, address, res)
          ELSE EntersDo(r, "assets", chain_id, address, <<"address", address>>)

\* GET /latest_singleton?singleton_id=...&chain=...: the id is decoded and
\* measured, then sf.do(b'singleton' + singleton_id, lambda:
\* get_and_sync_singleton(chain.id, singleton_id, chain.client)) up to its
\* await.
ApiGetLatestSingleton(r, singleton_id, chain_id) ==
  /\ api.request[r].pc = "idle"
  /\ LET res == singleton_id_bytes(singleton_id)
     IN IF res.kind = "http"
          THEN Rejects(r, "latest_singleton", chain_id, singleton_id, res)
          ELSE EntersDo(r, "latest_singleton", chain_id, singleton_id,
                        <<"singleton", res.bytes>>)

\* The sync or the resolution that a request started returns or raises
\* ValueError.
ApiWorkEnds(w, kind) ==
  /\ GuardWorkEnds(w, kind)
  /\ api' = [api EXCEPT !.rejected = IdleApiRequest]

\* sf.do goes on after its await.
ApiResume(r) ==
  /\ GuardResumeOwn(r) \/ GuardResumeShared(r)
  /\ api' = [api EXCEPT !.rejected = IdleApiRequest]

\* The handler after sf.do. get_latest_singleton returns what do returned
\* and turns a ValueError into HTTPException(400); list_assets drops what
\* do returned and answers with get_assets on get_db(chain.id), and an
\* exception of do ends it (500).
ApiRespond(r) ==
  /\ api.request[r].pc = "in_do"
  /\ guard.caller[r].pc = "left"
  /\ GuardLeave(r)
  /\ LET q == api.request[r]
         got == guard.caller[r].got
         response ==
           IF q.endpoint = "latest_singleton"
             THEN IF got.kind = "returned"
                    THEN [status_code |-> 200, detail |-> "",
                          served_from |-> api.work_chain[got.work]]
                    ELSE [status_code |-> 400, detail |-> "ValueError",
                          served_from |-> api.work_chain[got.work]]
             ELSE IF got.kind = "returned"
                    THEN [status_code |-> 200, detail |-> "",
                          served_from |-> q.chain]
                    ELSE [status_code |-> 500, detail |-> "",
                          served_from |-> api.work_chain[got.work]]
     IN api' = [api EXCEPT !.request[r] = [q EXCEPT !.pc = "responded",
                                                    !.response = response],
                           !.rejected = IdleApiRequest]

\* The response has been sent.
ApiDone(r) ==
  /\ api.request[r].pc = "responded"
  /\ api' = [api EXCEPT !.request[r] = IdleApiRequest,
                        !.rejected = IdleApiRequest]
  /\ UNCHANGED guard

\* ------------------------------------- the chain RPC source: singletons

\* How many spends the singleton's chain may hold, the greatest height of a
\* spend, and how many times the node may roll spends back.
MaxSpends == 3

MaxSpendHeight == 3

MaxRollbacks == 1

\* The launcher coin's id. A coin's id commits to its parent: it is the
\* parent's id followed by what tells the child from its siblings.
LauncherId == <<"L">>

\* The odd-amount children a spend may create in place of one another.
ChildVariants == {"a", "b"}

\* A spend of the coin at the end of the chain: its height, and the children
\* it creates: one odd-amount coin, one odd-amount and one even-amount coin,
\* two odd-amount coins, or an even-amount coin alone.
SpendRecords ==
  [height : 1..MaxSpendHeight, child : ChildVariants,
   children : {"odd", "odd_even", "two_odd", "even"}]

NoSpends == [spends |-> <<>>, nrollback |-> 0]

\* The coin that the first d spends lead to: the launcher for d = 0.
MainCoin(w, d) == LauncherId \o [i \in 1..d |-> w.spends[i].child]

\* The coin records of the children of parent_id, as the node holds them.
\* Only the first odd-amount child of a spend is ever spent.
ChildRecords(w, parent_id) ==
  IF \E d \in 0..(Len(w.spends) - 1) : MainCoin(w, d) = parent_id
    THEN
      LET d == CHOOSE d \in 0..(Len(w.spends) - 1) : MainCoin(w, d) = parent_id
          sp == w.spends[d + 1]
          rec(tag, odd, spent) ==
            [coin |-> [id |-> Append(parent_id, tag), parent |-> parent_id,
                       odd |-> odd],
             confirmed_block_index |-> sp.height,
             spent_block_index |-> spent]
          next_height ==
            IF d + 2 <= Len(w.spends) THEN w.spends[d + 2].height ELSE 0
      IN (IF sp.children \in {"odd", "odd_even", "two_odd"}
            THEN {rec(sp.child, TRUE, next_height)} ELSE {})
         \cup (IF sp.children = "two_odd" THEN {rec("o2", TRUE, 0)} ELSE {})
         \cup (IF sp.children \in {"odd_even", "even"}
                 THEN {rec("e", FALSE, 0)} ELSE {})
    ELSE {}

\* get_coin_records_by_parent_ids([parent_id], include_spent_coins=True,
\* start_height, end_height): the children confirmed at a height in
\* [start_height, end_height); -1 is None, no bound.
get_coin_records_by_parent_ids(w, parent_id, start_height, end_height) ==
  {cr \in ChildRecords(w, parent_id) :
     /\ start_height = -1 \/ cr.confirmed_block_index >= start_height
     /\ end_height = -1 \/ cr.confirmed_block_index < end_height}

NoSpend == [kind |-> "none"]

\* get_puzzle_and_solution(coin_id, height): the spend of the coin at that
\* height; the call fails when the node holds no such spend.
get_puzzle_and_solution(w, coin_id, height) ==
  IF \E d \in 0..(Len(w.spends) - 1) :
       MainCoin(w, d) = coin_id /\ w.spends[d + 1].height = height
    THEN [kind |-> "spend", coin_id |-> coin_id, height |-> height]
    ELSE NoSpend

\* No coin.
NoCoin == [id |-> <<>>, parent |-> <<>>, odd |-> FALSE]

\* A spend may follow the spends so far: the coin at the end of the chain
\* exists, and the spend is above the spend that created it.
MayExtend(spends, sp) ==
  /\ Len(spends) < MaxSpends
  /\ spends # <<>> =>
       /\ spends[Len(spends)].children # "even"
       /\ sp.height > spends[Len(spends)].height

\* The spend at the end of the singleton's chain is included in a block.
WorldSpend ==
  /\ \E sp \in SpendRecords :
       /\ MayExtend(world.spends, sp)
       /\ world' = [world EXCEPT !.spends = Append(@, sp)]
  /\ resolver' = IF resolver.pc = "idle"
                   THEN [resolver EXCEPT !.last_ok = NoCoin]
                   ELSE [resolver EXCEPT !.stable = FALSE,
                                         !.last_ok = NoCoin]

\* The node leaves the blocks of the last spends: the chain is cut back to
\* its first k spends.
WorldRollback ==
  /\ world.nrollback < MaxRollbacks
  /\ \E k \in 0..(Len(world.spends) - 1) :
       world' = [spends |-> SubSeq(world.spends, 1, k),
                 nrollback |-> world.nrollback + 1]
  /\ resolver' = IF resolver.pc = "idle"
                   THEN [resolver EXCEPT !.last_ok = NoCoin]
                   ELSE [resolver EXCEPT !.stable = FALSE,
                                         !.last_ok = NoCoin]

\* ------------------------------------------- sync.py get_and_sync_singleton

NoRecord ==
  [coin |-> [id |-> <<>>, parent |-> <<>>, odd |-> FALSE],
   confirmed_block_index |-> -1, spent_block_index |-> -1]

NoRow == [coin_id |-> <<>>, spent_block_index |-> -1]

NoResult ==
  [kind |-> "none", error |-> "", current_coin |-> NoRecord.coin,
   parent_coin_spend |-> NoSpend]

\* No get_and_sync_singleton call is in progress. The locals are those of
\* the function; restarts counts the recursive calls, first_row is the cursor
\* row that the outermost call read, and stable tells that the node's record
\* of the singleton has not changed since the call began; queries counts the
\* get_coin_records_by_parent_ids calls of the call, and last_ok is the coin
\* that the call before returned, if it returned one and the node's record
\* has not changed since that call began.
IdleResolver ==
  [pc |-> "idle", had_row |-> FALSE, fetch_coin_id |-> <<>>,
   spent_block_index |-> -1, odd_coin_record |-> NoRecord, restarts |-> 0,
   first_row |-> NoRow, read |-> FALSE, stable |-> TRUE, result |-> NoResult,
   queries |-> 0, last_ok |-> NoCoin]

\* get_singelton_spend_by_id: the row of the singleton, NoRow when absent.
get_singelton_spend_by_id(d, singleton_id) ==
  IF singleton_id \in DOMAIN d.singletonspend
    THEN d.singletonspend[singleton_id]
    ELSE NoRow

\* delete_singleton_spend_by_id
delete_singleton_spend_by_id(d, singleton_id) ==
  [d EXCEPT !.singletonspend =
     [k \in (DOMAIN d.singletonspend) \ {singleton_id} |-> d.singletonspend[k]]]

\* save_singleton_spend: INSERT OR REPLACE by singleton_id.
save_singleton_spend_lost(d, singleton_id, row) == d

save_singleton_spend(d, singleton_id, row) ==
  [d EXCEPT !.singletonspend =
     [k \in (DOMAIN d.singletonspend) \cup {singleton_id} |->
        IF k = singleton_id THEN row ELSE d.singletonspend[k]]]

\* `while spent_block_index is None or spent_block_index > 0`
loop_continues_first_only(spent_index) == spent_index = -1

loop_continues(spent_index) ==
  spent_index = -1 \/ spent_index > 0

\* get_latest_singleton calls get_and_sync_singleton(chain_id, singleton_id,
\* client) for the launcher id.
ResolveCall ==
  /\ resolver.pc = "idle"
  /\ resolver' = [IdleResolver EXCEPT !.pc = "start",
                                      !.last_ok = resolver.last_ok]
  /\ UNCHANGED <<db, world>>

\* The call, or its recursive call, reads the cursor row and sets
\* fetch_coin_id and spent_block_index (-1 is None).
ResolveStart ==
  /\ resolver.pc = "start"
  /\ LET singleton_spend == get_singelton_spend_by_id(db, LauncherId)
         had_row == singleton_spend # NoRow
         spent_index ==
           IF had_row THEN singleton_spend.spent_block_index ELSE -1
     IN resolver' =
          [resolver EXCEPT
             !.had_row = had_row,
             !.fetch_coin_id =
               IF had_row THEN singleton_spend.coin_id ELSE LauncherId,
             !.spent_block_index = spent_index,
             !.odd_coin_record = NoRecord,
             !.first_row = IF resolver.read THEN @ ELSE singleton_spend,
             !.read = TRUE,
             !.pc = IF loop_continues(spent_index)
                      THEN "query" ELSE "after"]
  /\ UNCHANGED <<db, world>>

\* `if cr['coin']['amount'] % 2 == 1`
is_odd_any(cr) == TRUE

is_odd(cr) == cr.coin.odd

\* `if odd_coin_record is not None: raise ValueError('more than one odd coin')`
more_than_one_ignored(odds) == FALSE

more_than_one(odds) == Cardinality(odds) > 1

\* One pass of the while loop: the query for the children of fetch_coin_id
\* and the for loop over the records. With two odd-amount records the pass
\* raises; the record kept otherwise is the odd-amount one, if any.
query_step(w, fetch_coin_id, spent_index) ==
  LET coin_records ==
        get_coin_records_by_parent_ids(
          w, fetch_coin_id, spent_index,
          IF spent_index > 0 THEN spent_index + 1 ELSE -1)
      odds == {cr \in coin_records : is_odd(cr)}
  IN IF more_than_one(odds) THEN [kind |-> "raise", record |-> NoRecord]
     ELSE IF odds = {} THEN [kind |-> "none", record |-> NoRecord]
     ELSE [kind |-> "odd",
           record |-> CHOOSE cr \in odds : TRUE]

\* The call's pass of the while loop.
ResolveQuery ==
  /\ resolver.pc = "query"
  /\ LET step == query_step(world, resolver.fetch_coin_id,
                            resolver.spent_block_index)
     IN resolver' =
          IF step.kind = "raise"
            THEN [resolver EXCEPT
                    !.queries = @ + 1,
                    !.pc = "done",
                    !.result = [NoResult EXCEPT
                                  !.kind = "error",
                                  !.error = "more than one odd coin"]]
          ELSE IF step.kind = "none"
            THEN [resolver EXCEPT !.queries = @ + 1,
                                  !.odd_coin_record = NoRecord, !.pc = "after"]
          ELSE [resolver EXCEPT
                  !.queries = @ + 1,
                  !.odd_coin_record = step.record,
                  !.spent_block_index = step.record.spent_block_index,
                  !.fetch_coin_id = step.record.coin.id,
                  !.pc = IF loop_continues(step.record.spent_block_index)
                           THEN "query" ELSE "after"]
  /\ UNCHANGED <<db, world>>

\* `if singleton_spend:` in the branch of the walk that found no odd coin.
stale_never_restarts(had_row) == FALSE

stale_restarts(had_row) == had_row

\* The walk ended with no odd-amount record: with a cursor row read, the row
\* is deleted and the function calls itself; with none, the call raises.
ResolveStale ==
  /\ resolver.pc = "after"
  /\ resolver.odd_coin_record = NoRecord
  /\ IF stale_restarts(resolver.had_row)
       THEN /\ db' = delete_singleton_spend_by_id(db, LauncherId)
            /\ resolver' = [resolver EXCEPT !.pc = "start",
                                            !.restarts = @ + 1]
       ELSE /\ resolver' =
                 [resolver EXCEPT
                    !.pc = "done",
                    !.result = [NoResult EXCEPT
                                  !.kind = "error",
                                  !.error = "This is not a singleton"]]
            /\ UNCHANGED db
  /\ UNCHANGED world

\* The walk ended at an odd-amount record: the cursor row is saved with the
\* record's parent and the height that confirmed the record.
ResolveSave ==
  /\ resolver.pc = "after"
  /\ resolver.odd_coin_record # NoRecord
  /\ db' = save_singleton_spend(
             db, LauncherId,
             [coin_id |-> resolver.odd_coin_record.coin.parent,
              spent_block_index |-> resolver.odd_coin_record.confirmed_block_index])
  /\ resolver' = [resolver EXCEPT !.pc = "spend"]
  /\ UNCHANGED world

\* get_puzzle_and_solution(parent_coin_id, confirmed_block_index) and the
\* return; a failure of the call is raised to the caller.
ResolveSpend ==
  /\ resolver.pc = "spend"
  /\ LET coin_spend ==
           get_puzzle_and_solution(
             world, resolver.odd_coin_record.coin.parent,
             resolver.odd_coin_record.confirmed_block_index)
     IN resolver' =
          [resolver EXCEPT
             !.pc = "done",
             !.result =
               IF coin_spend = NoSpend
                 THEN [NoResult EXCEPT !.kind = "error", !.error = "rpc"]
                 ELSE [kind |-> "ok", error |-> "",
                       current_coin |-> resolver.odd_coin_record.coin,
                       parent_coin_spend |-> coin_spend]]
  /\ UNCHANGED <<db, world>>

\* The caller has the result or the error.
ResolveReturn ==
  /\ resolver.pc = "done"
  /\ resolver' =
       [IdleResolver EXCEPT
          !.last_ok = IF resolver.result.kind = "ok" /\ resolver.stable
                        THEN resolver.result.current_coin
                        ELSE NoCoin]
  /\ UNCHANGED <<db, world>>

\* The while loop as a function of what the node holds: the passes from
\* fetch_coin_id and spent_index on, odd_coin_record being the record of the
\* pass before.
RECURSIVE walk(_, _, _, _)
walk(w, fetch_coin_id, spent_index, odd_coin_record) ==
  IF loop_continues(spent_index)
    THEN LET step == query_step(w, fetch_coin_id, spent_index)
         IN IF step.kind = "odd"
              THEN walk(w, step.record.coin.id,
                        step.record.spent_block_index, step.record)
              ELSE step
    ELSE [kind |-> IF odd_coin_record = NoRecord THEN "none" ELSE "odd",
          record |-> odd_coin_record]

\* get_and_sync_singleton run to its end on tables d while the node holds w:
\* what the call returns or raises, and the tables it leaves.
RECURSIVE get_and_sync_singleton(_, _)
get_and_sync_singleton(w, d) ==
  LET singleton_spend == get_singelton_spend_by_id(d, LauncherId)
      had_row == singleton_spend # NoRow
      end == walk(w,
                  IF had_row THEN singleton_spend.coin_id ELSE LauncherId,
                  IF had_row THEN singleton_spend.spent_block_index ELSE -1,
                  NoRecord)
      coin_spend ==
        get_puzzle_and_solution(w, end.record.coin.parent,
                                end.record.confirmed_block_index)
  IN IF end.kind = "raise"
       THEN [result |-> [NoResult EXCEPT !.kind = "error",
                                         !.error = "more than one odd coin"],
             db |-> d]
     ELSE IF end.kind = "none"
       THEN IF stale_restarts(had_row)
              THEN get_and_sync_singleton(
                     w, delete_singleton_spend_by_id(d, LauncherId))
              ELSE [result |-> [NoResult EXCEPT
                                  !.kind = "error",
                                  !.error = "This is not a singleton"],
                    db |-> d]
     ELSE [result |->
             IF coin_spend = NoSpend
               THEN [NoResult EXCEPT !.kind = "error", !.error = "rpc"]
               ELSE [kind |-> "ok", error |-> "",
                     current_coin |-> end.record.coin,
                     parent_coin_spend |-> coin_spend],
           db |-> save_singleton_spend(
                    d, LauncherId,
                    [coin_id |-> end.record.coin.parent,
                     spent_block_index |-> end.record.confirmed_block_index])]

\* ------------------------------- api.py: create_transaction (POST /sendtx)

\* How many answers of the node to push_tx are drawn for one request.
MaxAnswers == 3

\* `retry_during_sync_number = 2`
retry_during_sync_number == 2

\* `await asyncio.sleep(5)`
sleep_seconds == 5

\* What the node does with one push_tx call: it answers with success and a
\* status, it answers with success false and an error, or the HTTP exchange
\* itself fails.
PushTxAnswers ==
  {[success |-> TRUE, status |-> "SUCCESS", error |-> ""],
   [success |-> FALSE, status |-> "", error |-> "NO_TRANSACTIONS_WHILE_SYNCING"],
   [success |-> FALSE, status |-> "", error |-> "DOUBLE_SPEND"],
   [success |-> FALSE, status |-> "", error |-> "unreachable"]}

StillSyncing ==
  [success |-> FALSE, status |-> "", error |-> "NO_TRANSACTIONS_WHILE_SYNCING"]

Accepted == [success |-> TRUE, status |-> "SUCCESS", error |-> ""]

\* FullNodeRpcClient.push_tx through fetch: raise_for_status raises the
\* HTTP client's error, an answer without success raises ValueError(res_json)
\* and any other answer is returned.
push_tx(answer) ==
  IF answer.error = "unreachable"
    THEN [kind |-> "ClientError", resp |-> answer]
  ELSE IF ~answer.success
    THEN [kind |-> "ValueError", resp |-> answer]
  ELSE [kind |-> "returned", resp |-> answer]

\* `'NO_TRANSACTIONS_WHILE_SYNCING' in err_str`
still_syncing_any(res_json) == TRUE

still_syncing(res_json) == res_json.error = "NO_TRANSACTIONS_WHILE_SYNCING"

NoResponse == [kind |-> "none", status_code |-> 0, detail |-> ""]

\* No request yet. answers is what the node will answer to the successive
\* push_tx calls, pushed how many calls were made, slept the delays waited.
NoSendTx ==
  [pc |-> "idle", answers |-> <<>>, retry_during_sync_number |-> 0,
   pushed |-> 0, slept |-> <<>>, response |-> NoResponse]

\* create_transaction up to its loop.
SendTxCall ==
  /\ sendtx.pc = "idle"
  /\ sendtx' = [sendtx EXCEPT !.pc = "loop",
                              !.retry_during_sync_number =
                                retry_during_sync_number]

\* One turn of `while retry_during_sync_number`: the count is decremented
\* and push_tx is awaited. The answer is returned as the status; a
\* ValueError of a node that is still syncing leads to the sleep, any other
\* ValueError becomes HTTPException(400, err_str), and another exception
\* leaves the handler as it is.
SendTxPush ==
  /\ sendtx.pc = "loop"
  /\ sendtx.retry_during_sync_number # 0
  /\ sendtx.pushed < Len(sendtx.answers)
  /\ LET got == push_tx(sendtx.answers[sendtx.pushed + 1])
         turn == [sendtx EXCEPT !.retry_during_sync_number = @ - 1,
                                !.pushed = @ + 1]
     IN sendtx' =
          IF got.kind = "returned"
            THEN [turn EXCEPT !.pc = "done",
                              !.response = [kind |-> "returned",
                                            status_code |-> 200,
                                            detail |-> got.resp.status]]
          ELSE IF got.kind = "ValueError" /\ still_syncing(got.resp)
            THEN [turn EXCEPT !.pc = "sleep"]
          ELSE IF got.kind = "ValueError"
            THEN [turn EXCEPT !.pc = "done",
                              !.response = [kind |-> "HTTPException",
                                            status_code |-> 400,
                                            detail |-> got.resp.error]]
          ELSE [turn EXCEPT !.pc = "done",
                            !.response = [kind |-> "raised",
                                          status_code |-> 500,
                                          detail |-> got.resp.error]]

\* `await asyncio.sleep(5)` and `continue`.
SendTxSleep ==
  /\ sendtx.pc = "sleep"
  /\ sendtx' = [sendtx EXCEPT !.pc = "loop",
                              !.slept = Append(@, sleep_seconds)]

\* The loop ends with the count at 0:
\* `raise HTTPException(400, "sendtx: timeout")`.
SendTxTimeout ==
  /\ sendtx.pc = "loop"
  /\ sendtx.retry_during_sync_number = 0
  /\ sendtx' = [sendtx EXCEPT !.pc = "done",
                              !.response = [kind |-> "HTTPException",
                                            status_code |-> 400,
                                            detail |-> "sendtx: timeout"]]

\* ----------------------------------------------------- types.py: Program

\* How many pairs a program tree drawn as an input holds, how long a drawn
\* buffer is, and how many arguments are curried in.
MaxPairs == 2

MaxBlobLen == 4

MaxArgs == 2

\* A program is an atom, a byte string, or a pair of two programs. Bytes
\* are the integers 0..255.
Atom(a) == [atom |-> a]

Cons(f, r) == [first |-> f, rest |-> r]

listp(p) == DOMAIN p = {"first", "rest"}

Nil == Atom(<<>>)

\* The atoms drawn: the empty one, the codes 1 (q), 2 (a) and 4 (c), one
\* byte above 0x7f, and one of two bytes.
AtomValues == {<<>>, <<1>>, <<2>>, <<4>>, <<128>>, <<1, 255>>}

\* The bytes buffers are drawn from: an atom of one byte, the prefixes of
\* the empty atom and of the atoms of one and two bytes, and the pair marker.
BlobBytes == {1, 128, 129, 130, 255}

\* The program trees of exactly n pairs.
RECURSIVE TreesOf(_)
TreesOf(n) ==
  IF n = 0 THEN {Atom(a) : a \in AtomValues}
  ELSE UNION {{Cons(f, r) : f \in TreesOf(i), r \in TreesOf(n - 1 - i)} :
                i \in 0..(n - 1)}

Programs == UNION {TreesOf(n) : n \in 0..MaxPairs}

Blobs == UNION {[1..n -> BlobBytes] : n \in 0..MaxBlobLen}

\* Program.to of a Python list: the pairs of a nil-terminated list.
RECURSIVE to_list(_)
to_list(items) ==
  IF items = <<>> THEN Nil ELSE Cons(Head(items), to_list(Tail(items)))

\* sexp_to_stream of clvm.serialize, which Program.stream calls: a pair is
\* the marker 0xff, its first and its rest; the empty atom is 0x80, an atom
\* of one byte up to 0x7f is that byte, and any other atom follows its
\* length prefix, 0x80 + length for the lengths below 0x40.
RECURSIVE sexp_to_stream(_)
sexp_to_stream(p) ==
  IF listp(p)
    THEN <<255>> \o sexp_to_stream(p.first) \o sexp_to_stream(p.rest)
  ELSE IF p.atom = <<>> THEN <<128>>
  ELSE IF Len(p.atom) = 1 /\ p.atom[1] <= 127 THEN p.atom
  ELSE <<128 + Len(p.atom)>> \o p.atom

\* Program.__bytes__
to_bytes(p) == sexp_to_stream(p)

BadEncoding == [ok |-> FALSE, p |-> Nil, rest |-> <<>>]

\* sexp_from_stream of clvm.serialize, which Program.parse calls, on the
\* stream f: the program read and what is left of the stream. A first byte
\* 0xff reads a pair, 0x80 the empty atom, a byte up to 0x7f the atom of
\* that byte, and a byte 0x80 + n below 0xc0 the atom of the n bytes that
\* follow; a stream that ends early is a bad encoding.
RECURSIVE sexp_from_stream(_)
sexp_from_stream(f) ==
  IF f = <<>> THEN BadEncoding
  ELSE LET b == Head(f)
           r == Tail(f)
       IN IF b = 255
            THEN LET first == sexp_from_stream(r)
                 IN IF ~first.ok THEN BadEncoding
                    ELSE LET rest == sexp_from_stream(first.rest)
                         IN IF ~rest.ok THEN BadEncoding
                            ELSE [ok |-> TRUE, p |-> Cons(first.p, rest.p),
                                  rest |-> rest.rest]
          ELSE IF b = 128 THEN [ok |-> TRUE, p |-> Nil, rest |-> r]
          ELSE IF b <= 127 THEN [ok |-> TRUE, p |-> Atom(<<b>>), rest |-> r]
          ELSE IF b >= 192 \/ Len(r) < b - 128 THEN BadEncoding
          ELSE [ok |-> TRUE, p |-> Atom(SubSeq(r, 1, b - 128)),
                rest |-> SubSeq(r, b - 128 + 1, Len(r))]

\* Program.from_bytes: parse, then `assert f.read() == b""`.
from_bytes_unchecked(blob) ==
  LET result == sexp_from_stream(blob)
  IN IF ~result.ok THEN [kind |-> "raised", error |-> "ValueError"]
     ELSE [kind |-> "Program", p |-> result.p]

from_bytes(blob) ==
  LET result == sexp_from_stream(blob)
  IN IF ~result.ok THEN [kind |-> "raised", error |-> "ValueError"]
     ELSE IF result.rest # <<>>
       THEN [kind |-> "raised", error |-> "AssertionError"]
     ELSE [kind |-> "Program", p |-> result.p]

\* The loop of Program.curry over the arguments in the order given:
\* `fixed_args = [4, (1, arg), fixed_args]`.
RECURSIVE fixed_args(_, _)
fixed_args(args, fixed) ==
  IF args = <<>> THEN fixed
  ELSE fixed_args(Tail(args),
                  to_list(<<Atom(<<4>>), Cons(Atom(<<1>>), Head(args)), fixed>>))

reversed(args) == [i \in 1..Len(args) |-> args[Len(args) + 1 - i]]

\* Program.curry: `Program.to([2, (1, self), fixed_args])` with the
\* arguments folded in from the last to the first.
curry_in_order(self, args) ==
  to_list(<<Atom(<<2>>), Cons(Atom(<<1>>), self),
            fixed_args(args, Atom(<<1>>))>>)

curry(self, args) ==
  to_list(<<Atom(<<2>>), Cons(Atom(<<1>>), self),
            fixed_args(reversed(args), Atom(<<1>>))>>)

\* match of clvm_tools against the pattern (op (q . (: . x)) (: . y)), a
\* list of three whose head is the atom op and whose second item is a pair
\* headed by the atom 1: what x and y are bound to.
NoBinding == [matched |-> FALSE, x |-> Nil, y |-> Nil]

match_pattern(op, sexp) ==
  IF /\ listp(sexp)
     /\ sexp.first = Atom(<<op>>)
     /\ listp(sexp.rest)
     /\ listp(sexp.rest.first)
     /\ sexp.rest.first.first = Atom(<<1>>)
     /\ listp(sexp.rest.rest)
     /\ sexp.rest.rest.rest = Nil
    THEN [matched |-> TRUE, x |-> sexp.rest.first.rest,
          y |-> sexp.rest.rest.first]
  ELSE NoBinding

\* The loop of clvm_tools.curry.uncurry: the parameters are taken off the
\* core while it matches (c (q . parm) core).
RECURSIVE uncurry_core(_, _)
uncurry_core(core, args) ==
  LET r == match_pattern(4, core)
  IN IF r.matched THEN uncurry_core(r.y, Append(args, r.x))
     ELSE [core |-> core, args |-> args]

\* Program.uncurry: the function and the list of the parameters when the
\* program matches (a (q . function) core) and the core ends in the atom 1,
\* and `self, self.to(0)` when clvm_tools' uncurry returns None.
uncurry(self) ==
  LET r == match_pattern(2, self)
      c == uncurry_core(r.y, <<>>)
  IN IF r.matched /\ c.core = Atom(<<1>>)
       THEN [kind |-> "tuple", mod |-> r.x, args |-> to_list(c.args)]
     ELSE [kind |-> "tuple", mod |-> self, args |-> Nil]

\* The arguments curried in, and programs that come close to the shape of
\* a curried program: the core missing, not ending in 1, or the list of
\* three ending in another atom than nil.
ArgValues == {Nil, Atom(<<1>>), Atom(<<4>>), Cons(Atom(<<1>>), Nil)}

ArgLists == UNION {[1..n -> ArgValues] : n \in 0..MaxArgs}

NearlyCurried ==
  UNION {{to_list(<<Atom(<<2>>), Cons(Atom(<<1>>), m)>>),
          to_list(<<Atom(<<2>>), Cons(Atom(<<1>>), m), Nil>>),
          to_list(<<Atom(<<2>>), Cons(Atom(<<1>>), m),
                    to_list(<<Atom(<<4>>), Cons(Atom(<<1>>), m), Nil>>)>>),
          to_list(<<Atom(<<2>>), Cons(Atom(<<2>>), m), Atom(<<1>>)>>),
          to_list(<<Atom(<<4>>), Cons(Atom(<<1>>), m), Atom(<<1>>)>>),
          Cons(Atom(<<2>>), Cons(Cons(Atom(<<1>>), m),
                                 Cons(Atom(<<1>>), Atom(<<1>>))))} :
           m \in ArgValues}

\* No value yet. input is the value the calls start from, val the value
\* the last call gave, done the calls made and args the arguments of curry.
NoProgram ==
  [input |-> [kind |-> "none"], val |-> [kind |-> "none"], done |-> <<>>,
   args |-> <<>>]

\* bytes(p)
ProgramBytes ==
  /\ program.val.kind = "Program"
  /\ program.done \in {<<>>, <<"from_bytes">>}
  /\ program' = [program EXCEPT
                   !.val = [kind |-> "bytes", b |-> to_bytes(program.val.p)],
                   !.done = Append(@, "bytes")]

\* Program.from_bytes(blob)
ProgramFromBytes ==
  /\ program.val.kind = "bytes"
  /\ program.done \in {<<>>, <<"bytes">>}
  /\ program' = [program EXCEPT !.val = from_bytes(program.val.b),
                                !.done = Append(@, "from_bytes")]

\* mod.curry(*args)
ProgramCurry(args) ==
  /\ program.val.kind = "Program"
  /\ program.done = <<>>
  /\ program' = [program EXCEPT
                   !.val = [kind |-> "Program", p |-> curry(program.val.p, args)],
                   !.args = args,
                   !.done = <<"curry">>]

\* p.uncurry()
ProgramUncurry ==
  /\ program.val.kind = "Program"
  /\ program.done \in {<<>>, <<"curry">>}
  /\ program' = [program EXCEPT !.val = uncurry(program.val.p),
                                !.done = Append(@, "uncurry")]

\* --------------------------------- SpecResolve: the resolver and the node

\* No spend of the launcher is known and no cursor row is stored.
InitResolve ==
  /\ db = EmptyDb
  /\ txn = IdleTxn
  /\ chain = <<Genesis>>
  /\ nreorg = 0
  /\ watcher = StoppedWatcher
  /\ key_future = <<>>
  /\ req = [r \in Reqs |-> IdleReq]
  /\ task = [r \in Reqs |-> NoTask]
  /\ last_call = [a \in SyncAddresses |-> NoCall]
  /\ match = NoInput
  /\ world = NoSpends
  /\ resolver = IdleResolver
  /\ guard = NoGuard
  /\ sendtx = NoSendTx
  /\ program = NoProgram
  /\ hinted = HintedNft
  /\ api = NoApi

\* The node's record of the singleton changes under the resolver.
WorldStep == (WorldSpend \/ WorldRollback) /\ UNCHANGED db

\* One call at a time: api.py runs the resolver under the single-flight
\* guard keyed by the singleton id.
Resolve ==
  \/ ResolveCall
  \/ ResolveStart
  \/ ResolveQuery
  \/ ResolveStale
  \/ ResolveSave
  \/ ResolveSpend
  \/ ResolveReturn

NextResolve ==
  (WorldStep \/ Resolve)
    /\ UNCHANGED <<txn, nodeVars, watcher, syncVars, match, guard, unitVars>>

SpecResolve == InitResolve /\ [][NextResolve]_vars

\* ------------------------------------------ SpecGuard: SingleFlight.do

InitGuard ==
  /\ db = EmptyDb
  /\ txn = IdleTxn
  /\ chain = <<Genesis>>
  /\ nreorg = 0
  /\ watcher = StoppedWatcher
  /\ key_future = <<>>
  /\ req = [r \in Reqs |-> IdleReq]
  /\ task = [r \in Reqs |-> NoTask]
  /\ last_call = [a \in SyncAddresses |-> NoCall]
  /\ match = NoInput
  /\ world = NoSpends
  /\ resolver = IdleResolver
  /\ guard = NoGuard
  /\ sendtx = NoSendTx
  /\ program = NoProgram
  /\ hinted = HintedNft
  /\ api = NoApi

NextGuard ==
  /\ \/ \E r \in Callers, key \in GuardKeys : GuardDo(r, key)
     \/ \E w \in 1..MaxWorks, kind \in {"returned", "raised"} :
          GuardWorkEnds(w, kind)
     \/ \E r \in Callers : GuardResumeOwn(r)
     \/ \E r \in Callers : GuardResumeShared(r)
     \/ \E r \in Callers : GuardLeave(r)
  /\ UNCHANGED <<dbVars, nodeVars, watcher, syncVars, match, resolveVars, unitVars>>

SpecGuard == InitGuard /\ [][NextGuard]_vars

\* ------------------------ SpecApi: list_assets and get_latest_singleton

NextApi ==
  /\ \/ \E r \in ApiRequests, address \in AddressInputs, chain_id \in ChainIds :
          ApiListAssets(r, address, chain_id)
     \/ \E r \in ApiRequests, singleton_id \in SingletonIdInputs,
           chain_id \in ChainIds :
          ApiGetLatestSingleton(r, singleton_id, chain_id)
     \/ \E w \in 1..MaxWorks, kind \in {"returned", "raised"} :
          ApiWorkEnds(w, kind)
     \/ \E r \in ApiRequests : ApiResume(r)
     \/ \E r \in ApiRequests : ApiRespond(r)
     \/ \E r \in ApiRequests : ApiDone(r)
  /\ UNCHANGED <<dbVars, nodeVars, watcher, syncVars, match, resolveVars,
                 sendtx, program, hinted>>

SpecApi == InitGuard /\ [][NextApi]_vars

\* ------------------------------------------ SpecSendTx: create_transaction

\* A request against a node whose answers to the successive push_tx calls
\* are any MaxAnswers of the possible ones.
InitSendTx ==
  /\ db = EmptyDb
  /\ txn = IdleTxn
  /\ chain = <<Genesis>>
  /\ nreorg = 0
  /\ watcher = StoppedWatcher
  /\ key_future = <<>>
  /\ req = [r \in Reqs |-> IdleReq]
  /\ task = [r \in Reqs |-> NoTask]
  /\ last_call = [a \in SyncAddresses |-> NoCall]
  /\ match = NoInput
  /\ world = NoSpends
  /\ resolver = IdleResolver
  /\ guard = NoGuard
  /\ \E answers \in [1..MaxAnswers -> PushTxAnswers] :
       sendtx = [NoSendTx EXCEPT !.answers = answers]
  /\ program = NoProgram
  /\ hinted = HintedNft
  /\ api = NoApi

NextSendTx ==
  /\ \/ SendTxCall
     \/ SendTxPush
     \/ SendTxSleep
     \/ SendTxTimeout
  /\ UNCHANGED <<dbVars, nodeVars, watcher, syncVars, match, resolveVars,
                 guard, program, hinted, api>>

SpecSendTx == InitSendTx /\ [][NextSendTx]_vars

\* ------------------------------------------- SpecProgram: the Program calls

\* A program tree or a buffer, to which the calls of types.py are applied.
InitProgram ==
  /\ db = EmptyDb
  /\ txn = IdleTxn
  /\ chain = <<Genesis>>
  /\ nreorg = 0
  /\ watcher = StoppedWatcher
  /\ key_future = <<>>
  /\ req = [r \in Reqs |-> IdleReq]
  /\ task = [r \in Reqs |-> NoTask]
  /\ last_call = [a \in SyncAddresses |-> NoCall]
  /\ match = NoInput
  /\ world = NoSpends
  /\ resolver = IdleResolver
  /\ guard = NoGuard
  /\ sendtx = NoSendTx
  /\ \E input \in {[kind |-> "Program", p |-> p] :
                     p \in Programs \cup NearlyCurried}
                    \cup {[kind |-> "bytes", b |-> b] : b \in Blobs} :
       program = [NoProgram EXCEPT !.input = input, !.val = input]
  /\ hinted = HintedNft
  /\ api = NoApi

NextProgram ==
  /\ \/ ProgramBytes
     \/ ProgramFromBytes
     \/ \E args \in ArgLists : ProgramCurry(args)
     \/ ProgramUncurry
  /\ UNCHANGED <<dbVars, nodeVars, watcher, syncVars, match, resolveVars,
                 guard, sendtx, hinted, api>>

SpecProgram == InitProgram /\ [][NextProgram]_vars

\* ------------------------------------------------ Spec: the running system

Init ==
  /\ db = EmptyDb
  /\ txn = IdleTxn
  /\ chain = <<Genesis>>
  /\ nreorg = 0
  /\ watcher = StoppedWatcher
  /\ key_future = <<>>
  /\ req = [r \in Reqs |-> IdleReq]
  /\ task = [r \in Reqs |-> NoTask]
  /\ last_call = [a \in SyncAddresses |-> NoCall]
  /\ match = NoInput
  /\ world = NoSpends
  /\ resolver = IdleResolver
  /\ guard = NoGuard
  /\ sendtx = NoSendTx
  /\ program = NoProgram
  /\ hinted = HintedNft
  /\ api = NoApi

Node ==
  /\ NodeNewBlock \/ NodeReorg
  /\ UNCHANGED <<dbVars, watcher, syncVars, match, resolveVars, unitVars, guard>>

Next ==
  \/ Node
  \/ WatcherStart
  \/ WatcherFetch
  \/ WatcherReorg
  \/ WatcherNewBlock
  \/ WatcherSaveBlock
  \/ WatcherStop
  \/ \E r \in Reqs : SfDo(r)
  \/ \E r \in Reqs : SyncStart(r)
  \/ \E r \in Reqs : SyncTip(r)
  \/ \E r \in Reqs : SyncHint(r)
  \/ \E r \in Reqs : SyncHandleCoin(r)
  \/ \E r \in Reqs : SyncSaveHeight(r)
  \/ \E r \in Reqs : SfReturn(r)

Spec == Init /\ [][Next]_vars

\* SpecWatch: the node and the watcher, with the passes of the loop that
\* wait for the peak or meet a failing fetch. (In Spec these passes change
\* nothing and are left out.)
NextWatch ==
  \/ Node
  \/ WatcherStart
  \/ WatcherFetch
  \/ WatcherFetchFails
  \/ WatcherWait
  \/ WatcherWake
  \/ WatcherReorg
  \/ WatcherNewBlock
  \/ WatcherSaveBlock
  \/ WatcherStop

SpecWatch == Init /\ [][NextWatch]_vars

\* SpecWatchLive: the node and a watcher process that is started again
\* whenever Watcher.start has ended and is never stopped from outside. Every
\* step of the watcher that stays possible is taken; of the passes of the
\* loop that fetch a block, not all fail.
NextWatchLive ==
  \/ Node
  \/ WatcherStart
  \/ WatcherFetch
  \/ WatcherFetchFails
  \/ WatcherWait
  \/ WatcherWake
  \/ WatcherReorg
  \/ WatcherNewBlock
  \/ WatcherSaveBlock

SpecWatchLive ==
  /\ Init
  /\ [][NextWatchLive]_vars
  /\ WF_vars(WatcherStart)
  /\ SF_vars(WatcherFetch)
  /\ SF_vars(WatcherReorg)
  /\ WF_vars(WatcherWait)
  /\ WF_vars(WatcherWake)
  /\ WF_vars(WatcherNewBlock)
  /\ WF_vars(WatcherSaveBlock)

\* SpecCalls: the system while the node stays on one fork, with the completed
\* calls recorded.
InitCalls ==
  /\ db = EmptyDb
  /\ txn = IdleTxn
  /\ chain = <<Genesis>>
  /\ nreorg = 0
  /\ watcher = StoppedWatcher
  /\ key_future = <<>>
  /\ req = [r \in Reqs |-> IdleReq]
  /\ task = [r \in Reqs |-> NoTask]
  /\ last_call = [a \in SyncAddresses |-> NoCallYet]
  /\ match = NoInput
  /\ world = NoSpends
  /\ resolver = IdleResolver
  /\ guard = NoGuard
  /\ sendtx = NoSendTx
  /\ program = NoProgram
  /\ hinted = HintedNft
  /\ api = NoApi

\* The node's chain grows and no fork replaces it.
NodeGrows ==
  /\ NodeNewBlock
  /\ UNCHANGED <<dbVars, watcher, syncVars, match, resolveVars, unitVars, guard>>

NextCalls ==
  \/ NodeGrows
  \/ WatcherStart
  \/ WatcherFetch
  \/ WatcherNewBlock
  \/ WatcherSaveBlock
  \/ WatcherStop
  \/ \E r \in Reqs : SfDo(r)
  \/ \E r \in Reqs : SyncStart(r)
  \/ \E r \in Reqs : SyncTip(r)
  \/ \E r \in Reqs : SyncHint(r)
  \/ \E r \in Reqs : SyncHandleCoin(r)
  \/ \E r \in Reqs : SyncSaveHeight(r)
  \/ \E r \in Reqs : SfReturn(r)

SpecCalls == InitCalls /\ [][NextCalls]_vars

\* ------------------------------------------------------- SpecDb: the calls

\* Contents the block table can have: a run of consecutive heights, each
\* block linked to the one below. A hash is a <<height, fork>> pair.
BlockTables ==
  {{BlockRow(<<h, 0>>, h, <<h - 1, 0>>, tx[h]) : h \in lo..hi} :
     lo \in Heights, hi \in Heights, tx \in {[h \in Heights |-> h % 2 = 1]}}

AssetTables ==
  UNION {[S -> {r \in AssetRows : r.asset_type = "nft" /\ r.p2_puzzle_hash = "A"}] :
           S \in SUBSET CoinIds}

AddressSyncTables == UNION {[S -> Heights] : S \in SUBSET {"A"}}

SingletonSpendTables ==
  {[s \in {"s1"} |-> [coin_id |-> "c1", spent_block_index |-> MaxHeight]]}

InitDb ==
  /\ db \in [asset : AssetTables, address_sync : AddressSyncTables,
             block : BlockTables, singletonspend : SingletonSpendTables]
  /\ txn = IdleTxn
  /\ chain = <<Genesis>>
  /\ nreorg = 0
  /\ watcher = StoppedWatcher
  /\ key_future = <<>>
  /\ req = [r \in Reqs |-> IdleReq]
  /\ task = [r \in Reqs |-> NoTask]
  /\ last_call = [a \in SyncAddresses |-> NoCall]
  /\ match = NoInput
  /\ world = NoSpends
  /\ resolver = IdleResolver
  /\ guard = NoGuard
  /\ sendtx = NoSendTx
  /\ program = NoProgram
  /\ hinted = HintedNft
  /\ api = NoApi

\* reorg is called: the transaction opens.
ReorgBegin ==
  /\ txn.status # "open"
  /\ \E h \in Heights :
       txn' = [status |-> "open", block_height |-> h, step |-> 0,
               pre |-> db, work |-> db]
  /\ UNCHANGED db

\* The next statement of the open transaction is executed.
ReorgExecute ==
  /\ txn.status = "open"
  /\ txn.step < ReorgStatements
  /\ LET w == reorg_statement(txn.step + 1, txn.work, txn.block_height)
     IN /\ txn' = [txn EXCEPT !.step = txn.step + 1, !.work = w]
        /\ db' = statement_in_transaction(db, w)

\* The transaction commits after its last statement.
ReorgCommit ==
  /\ txn.status = "open"
  /\ txn.step = ReorgStatements
  /\ db' = txn.work
  /\ txn' = [txn EXCEPT !.status = "committed"]

\* A statement (or the commit) fails: the transaction is rolled back.
ReorgRollback ==
  /\ txn.status = "open"
  /\ txn' = [txn EXCEPT !.status = "aborted", !.step = 0, !.work = txn.pre]
  /\ UNCHANGED db

Persistence ==
  \/ ReorgBegin
  \/ ReorgExecute
  \/ ReorgCommit
  \/ ReorgRollback

NextDb == Persistence /\ UNCHANGED <<nodeVars, match, resolveVars, unitVars, guard, watcher, syncVars>>

SpecDb == InitDb /\ [][NextDb]_vars

\* ------------------------- SpecSpent: update_asset_coin_spent_height

\* `chunk_size = 200`.
chunk_size == 200

\* The longest coin id list: two full chunks and one more id.
MaxCoinIds == 401

\* `coin_ids[i: i+chunk_size]`, i counting from 0.
Min(a, b) == IF a <= b THEN a ELSE b

chunk_ids_short(coin_ids, i) ==
  SubSeq(coin_ids, i + 1, Min(i + chunk_size - 1, Len(coin_ids)))

chunk_ids(coin_ids, i) ==
  SubSeq(coin_ids, i + 1, Min(i + chunk_size, Len(coin_ids)))

Range(f) == {f[x] : x \in DOMAIN f}

\* The coin id lists of length n: the ids 1..n in rising order, in falling
\* order, and seven ids over and over.
CoinIdLists(n) ==
  {[i \in 1..n |-> i], [i \in 1..n |-> n + 1 - i],
   [i \in 1..n |-> ((i - 1) % 7) + 1]}

\* The Asset tables the call meets: no row, a row for every id up to one
\* past the longest list, rows for the even ids, rows for the ids at the
\* ends of the chunks. Every third row is spent at height 1 already.
SpentTables ==
  {[c \in S |->
      [asset_type |-> "nft", confirmed_height |-> 1,
       spent_height |-> IF c % 3 = 0 THEN 1 ELSE 0, p2_puzzle_hash |-> "A"]] :
     S \in {{}, 1..(MaxCoinIds + 1), {c \in 1..MaxCoinIds : c % 2 = 0},
            {1, chunk_size, chunk_size + 1, 2 * chunk_size, 2 * chunk_size + 1}}}

\* No update_asset_coin_spent_height call has been made. covered counts,
\* per place of the list, the chunks that held it.
NoSpentCall ==
  [status |-> "idle", coin_ids |-> <<>>, spent_height |-> 0, i |-> 0,
   pre |-> EmptyDb, work |-> EmptyDb, covered |-> <<>>]

InitSpent ==
  /\ \E t \in SpentTables : db = [EmptyDb EXCEPT !.asset = t]
  /\ txn = NoSpentCall
  /\ chain = <<Genesis>>
  /\ nreorg = 0
  /\ watcher = StoppedWatcher
  /\ key_future = <<>>
  /\ req = [r \in Reqs |-> IdleReq]
  /\ task = [r \in Reqs |-> NoTask]
  /\ last_call = [a \in SyncAddresses |-> NoCall]
  /\ match = NoInput
  /\ world = NoSpends
  /\ resolver = IdleResolver
  /\ guard = NoGuard
  /\ sendtx = NoSendTx
  /\ program = NoProgram
  /\ hinted = HintedNft
  /\ api = NoApi

\* update_asset_coin_spent_height(db, coin_ids, spent_height) is called: the
\* transaction opens and the loop starts at i = 0.
SpentBegin ==
  /\ txn.status = "idle"
  /\ \E n \in 0..MaxCoinIds : \E coin_ids \in CoinIdLists(n) :
       txn' = [status |-> "open", coin_ids |-> coin_ids, spent_height |-> 2,
               i |-> 0, pre |-> db, work |-> db,
               covered |-> [k \in 1..n |-> 0]]
  /\ UNCHANGED db

\* One turn of the loop: the UPDATE ... WHERE coin_id IN chunk_ids.
SpentExecute ==
  /\ txn.status = "open"
  /\ txn.i < Len(txn.coin_ids)
  /\ LET chunk == chunk_ids(txn.coin_ids, txn.i)
         w == update_asset_coin_spent_height(txn.work, Range(chunk),
                                             txn.spent_height)
     IN /\ txn' = [txn EXCEPT
                     !.i = txn.i + chunk_size,
                     !.work = w,
                     !.covered =
                       [k \in 1..Len(txn.coin_ids) |->
                          IF k > txn.i /\ k <= txn.i + Len(chunk)
                            THEN txn.covered[k] + 1 ELSE txn.covered[k]]]
        /\ db' = statement_in_transaction(db, w)

\* The loop is over: the transaction commits.
SpentCommit ==
  /\ txn.status = "open"
  /\ txn.i >= Len(txn.coin_ids)
  /\ db' = txn.work
  /\ txn' = [txn EXCEPT !.status = "committed"]

\* A statement (or the commit) fails: the transaction is rolled back.
SpentRollback ==
  /\ txn.status = "open"
  /\ txn' = [txn EXCEPT !.status = "aborted", !.work = txn.pre]
  /\ UNCHANGED db

NextSpent ==
  /\ \/ SpentBegin
     \/ SpentExecute
     \/ SpentCommit
     \/ SpentRollback
  /\ UNCHANGED <<nodeVars, match, resolveVars, unitVars, guard, watcher, syncVars>>

SpecSpent == InitSpent /\ [][NextSpent]_vars

\* --------------------------------------- SpecMatch: handle_coin on its own

\* How many conditions the p2 puzzle of a parent spend may emit.
MaxConditions == 2

ConditionLists == UNION {[1..n -> Conditions] : n \in 0..MaxConditions}

\* The puzzle hashes a hinted coin may have: a DID full puzzle hash for some
\* owner, recovery list and verification count, or the hash of another puzzle.
CoinPuzzleHashes ==
  {to_full_pzh(get_did_inner_puzzle_hash(a, rlh, nv, l), l) :
     a \in Addresses, rlh \in RecoveryListHashes, nv \in {0, 1}, l \in LauncherIds}
    \cup {<<"other">>}

ParentSpends == DidSpends \cup NftSpends(ConditionLists) \cup OtherSpends

\* handle_coin is about to be called for a coin record hinted to the address,
\* with the tables empty.
InitMatch ==
  /\ db = EmptyDb
  /\ txn = IdleTxn
  /\ chain = <<Genesis>>
  /\ nreorg = 0
  /\ watcher = StoppedWatcher
  /\ key_future = <<>>
  /\ req = [r \in Reqs |-> IdleReq]
  /\ task = [r \in Reqs |-> NoTask]
  /\ last_call = [a \in SyncAddresses |-> NoCall]
  /\ match \in [address : Addresses, coin_puzzle_hash : CoinPuzzleHashes,
                 parent_cs : ParentSpends, outcome : {"pending"},
                 nft_did_id : {"none"}]
  /\ world = NoSpends
  /\ resolver = IdleResolver
  /\ guard = NoGuard
  /\ sendtx = NoSendTx
  /\ program = NoProgram
  /\ hinted = HintedNft
  /\ api = NoApi

\* handle_coin(address, coin_record, parent_coin_spend, db) runs.
HandleCoin ==
  /\ match.outcome = "pending"
  /\ LET res == handle_coin(match.address,
                            [coin |-> "c1", confirmed_block_index |-> 1],
                            match.coin_puzzle_hash, match.parent_cs, db)
     IN /\ db' = res.db
        /\ match' = [match EXCEPT !.outcome = res.outcome,
                                  !.nft_did_id = res.nft_did_id]
  /\ UNCHANGED <<txn, nodeVars, watcher, syncVars, resolveVars, unitVars, guard>>

NextMatch == HandleCoin

SpecMatch == InitMatch /\ [][NextMatch]_vars

\* --------------------------- SpecSync: sync_user_assets and the matchers

\* What the node may serve for a hinted coin: the spend of an NFT whose p2
\* puzzle emits no or one condition, a spend that is no singleton's or whose
\* inner puzzle is neither a DID's nor an NFT's, or the spend of a DID with
\* any puzzle hash a coin of address A or another coin may have.
HintedCoins ==
  {[puzzle_hash |-> <<"other">>, parent_cs |-> parent_cs] :
     parent_cs \in
       {n \in NftSpends({<<>>} \cup {<<c>> : c \in Conditions}) :
          ~n.supports_did /\ n.owner_did = ""} \cup OtherSpends}
    \cup
  {[puzzle_hash |-> h, parent_cs |-> parent_cs] :
     parent_cs \in DidSpends,
     h \in {to_full_pzh(get_did_inner_puzzle_hash("A", rlh, nv, l), l) :
              rlh \in RecoveryListHashes, nv \in {0, 1}, l \in LauncherIds}
            \cup {<<"other">>}}

\* The two coins of CoinIds are hinted to address A and confirmed at height
\* 1, or one at height 1 and one at height 2; nothing is stored yet.
InitSync ==
  /\ db = EmptyDb
  /\ txn = IdleTxn
  /\ chain \in
       {<<Genesis, [is_tx |-> TRUE, additions |-> CoinIds, removals |-> {}],
          Genesis>>,
        <<Genesis, [is_tx |-> TRUE, additions |-> {"c1"}, removals |-> {}],
          [is_tx |-> TRUE, additions |-> {"c2"}, removals |-> {}]>>}
  /\ nreorg = 0
  /\ watcher = StoppedWatcher
  /\ key_future = <<>>
  /\ req = [r \in Reqs |-> IdleReq]
  /\ task = [r \in Reqs |-> NoTask]
  /\ last_call = [a \in SyncAddresses |-> NoCall]
  /\ match = NoInput
  /\ world = NoSpends
  /\ resolver = IdleResolver
  /\ guard = NoGuard
  /\ sendtx = NoSendTx
  /\ program = NoProgram
  /\ hinted \in [CoinIds -> HintedCoins]
  /\ api = NoApi

NextSync ==
  \/ \E r \in Reqs : SfDo(r)
  \/ \E r \in Reqs : SyncStart(r)
  \/ \E r \in Reqs : SyncTip(r)
  \/ \E r \in Reqs : SyncHint(r)
  \/ \E r \in Reqs : SyncHandleCoin(r)
  \/ \E r \in Reqs : SyncSaveHeight(r)
  \/ \E r \in Reqs : SfReturn(r)

SpecSync == InitSync /\ [][NextSync]_vars

\* ------------------------- SpecRollback: reorg and sync_user_assets

\* The node's chain has three blocks and stays as it is; the Watcher has
\* stored its blocks from some height on up to the peak, and no address has
\* been synced yet.
InitRollback ==
  /\ chain \in
       {<<Genesis, b1, b2>> : b1 \in BlockContents, b2 \in BlockContents}
  /\ MayFollow(<<Genesis>>, chain[2])
  /\ MayFollow(<<Genesis, chain[2]>>, chain[3])
  /\ \E lo \in 0..peak :
       db = [EmptyDb EXCEPT
               !.block = {get_block_record_by_height(h) : h \in lo..peak}]
  /\ txn = IdleTxn
  /\ nreorg = 0
  /\ watcher = StoppedWatcher
  /\ key_future = <<>>
  /\ req = [r \in Reqs |-> IdleReq]
  /\ task = [r \in Reqs |-> NoTask]
  /\ last_call = [a \in SyncAddresses |-> NoCall]
  /\ match = NoInput
  /\ world = NoSpends
  /\ resolver = IdleResolver
  /\ guard = NoGuard
  /\ sendtx = NoSendTx
  /\ program = NoProgram
  /\ hinted = HintedNft
  /\ api = NoApi

\* The requests enter SingleFlight.do before reorg is called. The writer of
\* the open transaction holds the database, so the steps of a sync fall
\* before the transaction opens or after it ends.
NextRollback ==
  \/ /\ Persistence
     /\ UNCHANGED <<nodeVars, match, resolveVars, unitVars, guard, watcher, syncVars>>
  \/ /\ txn.status = "idle"
     /\ \E r \in Reqs : SfDo(r)
  \/ /\ txn.status # "open"
     /\ \/ \E r \in Reqs : SyncStart(r)
        \/ \E r \in Reqs : SyncTip(r)
        \/ \E r \in Reqs : SyncHint(r)
        \/ \E r \in Reqs : SyncHandleCoin(r)
        \/ \E r \in Reqs : SyncSaveHeight(r)
        \/ \E r \in Reqs : SfReturn(r)

SpecRollback == InitRollback /\ [][NextRollback]_vars

\* ------------------------------------------------- claims on reorg (SpecDb)

\* No row of d lies above height h.
NothingAbove(d, h) ==
  /\ \A c \in DOMAIN d.asset :
       d.asset[c].confirmed_height <= h /\ d.asset[c].spent_height <= h
  /\ \A a \in DOMAIN d.address_sync : d.address_sync[a] <= h
  /\ \A b \in d.block : b.height <= h

\* C1: right after reorg(h) has committed, no Asset has confirmed_height > h
\* or spent_height > h, no AddressSync row has height > h and no Block has
\* height > h, whatever the tables held before.
C1_ReorgPost ==
  txn.status = "committed" => NothingAbove(db, txn.block_height)

\* A committed reorg whose prior tables had a row of each of the four kinds
\* above the rollback height.
C1_Witness ==
  /\ txn.status = "committed"
  /\ \E c \in DOMAIN txn.pre.asset :
       txn.pre.asset[c].confirmed_height > txn.block_height
  /\ \E c \in DOMAIN txn.pre.asset :
       /\ txn.pre.asset[c].confirmed_height <= txn.block_height
       /\ txn.pre.asset[c].spent_height > txn.block_height
  /\ \E a \in DOMAIN txn.pre.address_sync :
       txn.pre.address_sync[a] > txn.block_height
  /\ \E b \in txn.pre.block : b.height > txn.block_height

\* The scenario of the specification: an Asset created at height 100, marked
\* spent at 150, then reorg(120).
ScenarioRow ==
  [asset_type |-> "nft", confirmed_height |-> 100, spent_height |-> 0,
   p2_puzzle_hash |-> "A"]

ScenarioAfterReorg ==
  reorg(update_asset_coin_spent_height(
          save_asset(EmptyDb, "c1", ScenarioRow), {"c1"}, 150), 120)

\* C2: reorg(h) keeps every Asset with confirmed_height <= h and changes in it
\* only spent_height, reset to 0 when it was above h; AddressSync rows and
\* Blocks at or below h and all SingletonSpend rows are unchanged; the Asset
\* created at 100 and spent at 150 survives reorg(120) with spent_height 0.
C2_ReorgFrame ==
  /\ txn.status = "committed" =>
       LET pre == txn.pre
           h == txn.block_height
       IN /\ \A c \in DOMAIN pre.asset :
                pre.asset[c].confirmed_height <= h =>
                  /\ c \in DOMAIN db.asset
                  /\ db.asset[c] =
                       IF pre.asset[c].spent_height > h
                         THEN [pre.asset[c] EXCEPT !.spent_height = 0]
                         ELSE pre.asset[c]
          /\ \A a \in DOMAIN pre.address_sync :
                pre.address_sync[a] <= h =>
                  /\ a \in DOMAIN db.address_sync
                  /\ db.address_sync[a] = pre.address_sync[a]
          /\ \A b \in pre.block : b.height <= h => b \in db.block
          /\ db.singletonspend = pre.singletonspend
  /\ DOMAIN ScenarioAfterReorg.asset = {"c1"}
  /\ ScenarioAfterReorg.asset["c1"] = ScenarioRow

\* A committed reorg(h) with 0 < confirmed_height < h < spent_height on a row
\* that survived with spent_height 0, next to a row it left untouched.
C2_Witness ==
  /\ txn.status = "committed"
  /\ \E c \in DOMAIN txn.pre.asset :
       /\ txn.pre.asset[c].confirmed_height > 0
       /\ txn.pre.asset[c].confirmed_height < txn.block_height
       /\ txn.pre.asset[c].spent_height > txn.block_height
       /\ c \in DOMAIN db.asset
       /\ db.asset[c].spent_height = 0
  /\ \E c \in DOMAIN txn.pre.asset :
       /\ txn.pre.asset[c].spent_height > 0
       /\ txn.pre.asset[c].spent_height <= txn.block_height
       /\ c \in DOMAIN db.asset
       /\ db.asset[c] = txn.pre.asset[c]

\* C3: reorg(h) is idempotent: applied to the tables a reorg(h) has just
\* committed, it gives the same Asset, AddressSync and Block tables.
C3_ReorgIdempotent ==
  txn.status = "committed" =>
    LET again == reorg(db, txn.block_height)
    IN /\ again.asset = db.asset
       /\ again.address_sync = db.address_sync
       /\ again.block = db.block

\* A committed reorg that removed two or more blocks and changed the assets.
C3_Witness ==
  /\ txn.status = "committed"
  /\ Cardinality(txn.pre.block \ db.block) >= 2
  /\ db.asset # txn.pre.asset
  /\ db.address_sync # txn.pre.address_sync

\* C4: reorg(h) is atomic. While its transaction is open the committed
\* tables, which are what every other task reads, are the tables as they were
\* when it began; they change in the one commit step, to the result of all
\* four statements; a transaction that fails part-way leaves them as they
\* were.
C4_ReorgAtomic ==
  /\ [](txn.status = "open" => db = txn.pre)
  /\ [][txn.status = "open" =>
          \/ /\ txn'.status = "open"
             /\ db' = db
          \/ /\ txn'.status = "committed"
             /\ db' = reorg(txn.pre, txn.block_height)
          \/ /\ txn'.status = "aborted"
             /\ db' = txn.pre]_vars

\* An open transaction two statements in, whose working copy differs from the
\* committed tables and from the final result.
C4_Witness ==
  /\ txn.status = "open"
  /\ txn.step = 2
  /\ txn.work # db
  /\ txn.work # reorg(txn.pre, txn.block_height)

\* ------------------------------------------- claims on the system (Spec)

\* C5: in every reachable state every Asset row has spent_height = 0 or
\* spent_height >= confirmed_height.
C5_SpentNotBelowConfirmed ==
  \A c \in DOMAIN db.asset :
    db.asset[c].spent_height # 0 =>
      db.asset[c].spent_height >= db.asset[c].confirmed_height

\* C6: the stored heights are unique, and every stored block above the lowest
\* stored height has a stored block one height below whose hash is its
\* prev_hash.
C6_BlocksChained ==
  /\ \A b1 \in db.block, b2 \in db.block : b1.height = b2.height => b1 = b2
  /\ \A b \in db.block :
       (\E low \in db.block : low.height < b.height) =>
         \E below \in db.block :
           below.height = b.height - 1 /\ below.hash = b.prev_hash

\* The watcher has stored two blocks or more, the node has left the fork
\* of the stored tip, and the watcher has met the new fork and stopped.
C6_Witness ==
  /\ Cardinality(db.block) >= 2
  /\ watcher.pc = "stopped"
  /\ LET tip == get_latest_block(db)
     IN /\ tip.height < peak
        /\ header_hash(chain, tip.height) # tip.hash

\* The stored sync height of the call's address is the call's end_height.
HeightIsTarget(t) ==
  /\ t.address \in DOMAIN db.address_sync
  /\ db.address_sync[t.address] = t.end_height

\* C7: no step lowers the stored sync height of an address or removes it.
C7_SyncHeightMonotone ==
  [][\A a \in DOMAIN db.address_sync :
       /\ a \in DOMAIN db'.address_sync
       /\ db'.address_sync[a] >= db.address_sync[a]]_vars

\* A call through the guard that started above a stored height has stored
\* its own end_height over it.
C7_Witness ==
  \E r \in Reqs :
    /\ task[r].pc = "done" /\ task[r].outcome = "synced"
    /\ task[r].start_height > 1
    /\ sf_in_flight(task[r].address)
    /\ HeightIsTarget(task[r])

\* C8, as amended: when a sync_user_assets call that did not return at
\* `start_height >= end_height` completes, with or without matching coins,
\* the stored sync height of its address is its end_height.
C8_TargetPersisted ==
  \A r \in Reqs :
    (task[r].pc = "done" /\ task[r].outcome = "synced") => HeightIsTarget(task[r])

\* A call has completed with no coin matched, now or before, and its
\* end_height stored.
C8_Witness ==
  \E r \in Reqs :
    /\ task[r].pc = "done" /\ task[r].outcome = "synced"
    /\ task[r].coin_records = <<>>
    /\ db.asset = <<>>
    /\ HeightIsTarget(task[r])

\* C8, as stated: on every completion of sync_user_assets that is not an
\* exception, the stored sync height of its address is its end_height.
C8_EveryCompletion ==
  \A r \in Reqs :
    (task[r].pc = "done" /\ task[r].outcome \in {"synced", "noop"}) =>
      HeightIsTarget(task[r])

\* The call read the latest stored transaction block's height that the call
\* completed before it had read.
SameLatestTx(t) == t.prev.has /\ t.latest_tx = t.prev.latest_tx

\* The call went past the `start_height >= end_height` return.
WentOn(t) ==
  \/ t.pc \in {"hint", "coins", "save_height"}
  \/ t.pc = "done" /\ t.outcome # "noop"

\* C9, as amended: a call that computes the end_height of the call completed
\* before it for the address, from the same latest stored transaction block
\* height or, with none stored, from the same tip, returns at
\* `start_height >= end_height`: it makes no hint query, and its steps
\* change no table.
C9_SameTargetNoop ==
  /\ [](\A r \in Reqs :
          (SameLatestTx(task[r]) /\ task[r].end_height = task[r].prev.end_height)
            => ~WentOn(task[r]))
  /\ [][\A r \in Reqs :
          (/\ task'[r] # task[r]
           /\ task'[r].pc = "done"
           /\ SameLatestTx(task'[r])
           /\ task'[r].end_height = task'[r].prev.end_height)
            => (task'[r].outcome = "noop" /\ db' = db)]_vars

\* After a call that stored assets and the height of the latest stored
\* transaction block, a second call that found that block still the latest
\* has returned as a no-op.
C9_Witness ==
  \E r \in Reqs :
    /\ task[r].pc = "done" /\ task[r].outcome = "noop"
    /\ SameLatestTx(task[r])
    /\ task[r].latest_tx # -1
    /\ task[r].end_height = task[r].prev.end_height
    /\ HeightIsTarget(task[r])
    /\ db.asset # <<>>

\* C9, as stated: a call that reads the latest stored transaction block
\* height that the call completed before it read makes no hint query and no
\* write.
C9_SameLatestTxNoop ==
  \A r \in Reqs : SameLatestTx(task[r]) => ~WentOn(task[r])

\* ------------------------------------ claims on handle_coin (SpecMatch)

\* C10: every Asset row that handle_coin writes for a coin hinted to an
\* address has that address as its p2_puzzle_hash.
C10_AcceptanceGate ==
  \A c \in DOMAIN db.asset : db.asset[c].p2_puzzle_hash = match.address

\* ------------------------------------------------- claims on the resolver

\* The singleton's chain is launcher -> c1 -> ... -> cN with N >= 1: every
\* spend created exactly one odd-amount child, and cN is unspent.
UniqueOddChain(w) ==
  /\ Len(w.spends) >= 1
  /\ \A i \in 1..Len(w.spends) : w.spends[i].children \in {"odd", "odd_even"}

\* The call has its outcome and the node's record of the singleton is what
\* it was when the call began.
ResolvedStable == resolver.pc = "done" /\ resolver.stable

\* What a call on w is to return and to leave as the cursor row.
ChainResult(w) ==
  LET n == Len(w.spends)
  IN [current_coin |-> [id |-> MainCoin(w, n), parent |-> MainCoin(w, n - 1),
                        odd |-> TRUE],
      parent_coin_spend |-> [kind |-> "spend", coin_id |-> MainCoin(w, n - 1),
                             height |-> w.spends[n].height],
      row |-> [coin_id |-> MainCoin(w, n - 1),
               spent_block_index |-> w.spends[n].height]]

\* C11: on a chain launcher -> c1 -> ... -> cN of unique odd-amount children
\* with cN unspent, get_and_sync_singleton returns current_coin = cN and the
\* spend of cN's parent and leaves the cursor row (parent of cN, height that
\* confirmed cN); a returned coin always has an odd amount and was recorded
\* with spent_block_index 0 by the query that found it.
C11_ResolvesToTip ==
  /\ (ResolvedStable /\ UniqueOddChain(world)) =>
       /\ resolver.result.kind = "ok"
       /\ resolver.result.current_coin = ChainResult(world).current_coin
       /\ resolver.result.parent_coin_spend = ChainResult(world).parent_coin_spend
       /\ get_singelton_spend_by_id(db, LauncherId) = ChainResult(world).row
  /\ (resolver.pc = "done" /\ resolver.result.kind = "ok") =>
       /\ resolver.result.current_coin.odd
       /\ resolver.result.current_coin = resolver.odd_coin_record.coin
       /\ resolver.odd_coin_record.spent_block_index = 0

\* A call returned the tip of a chain of three spends, one of which also
\* created an even-amount coin.
C11_Witness ==
  /\ ResolvedStable
  /\ UniqueOddChain(world)
  /\ Len(world.spends) = MaxSpends
  /\ \E i \in 1..Len(world.spends) : world.spends[i].children = "odd_even"
  /\ resolver.result.kind = "ok"

\* The call failed on a parent with two odd-amount children.
AmbiguousRaised ==
  /\ resolver.pc = "done"
  /\ resolver.result.kind = "error"
  /\ resolver.result.error = "more than one odd coin"

\* The query of the pass about to run returns two odd-amount records.
QueriesAmbiguousParent ==
  /\ resolver.pc = "query"
  /\ Cardinality(
       {cr \in get_coin_records_by_parent_ids(
                 world, resolver.fetch_coin_id, resolver.spent_block_index,
                 IF resolver.spent_block_index > 0
                   THEN resolver.spent_block_index + 1 ELSE -1) :
          cr.coin.odd}) > 1

\* The cursor row is the one that the call found when it began.
CursorRowAsFound ==
  get_singelton_spend_by_id(db, LauncherId) = resolver.first_row

\* C12 as stated: a call that fails on a parent with more than one odd-amount
\* child has neither written nor deleted the cursor row.
C12_NoWriteNoDelete == AmbiguousRaised => CursorRowAsFound

\* C12: a pass of the walk whose queried parent has more than one odd-amount
\* child ends the call with an error and no coin; the call has written no
\* cursor row, and the row is as the call found it unless the call had found
\* it stale and deleted it before walking again from the launcher.
C12_AmbiguityFatal ==
  /\ [][(QueriesAmbiguousParent /\ resolver' # resolver /\ world' = world)
          => /\ resolver'.pc = "done"
             /\ resolver'.result.kind = "error"
             /\ resolver'.result.error = "more than one odd coin"
             /\ db' = db]_vars
  /\ [](AmbiguousRaised =>
          /\ resolver.result.current_coin = NoRecord.coin
          /\ resolver.result.parent_coin_spend = NoSpend
          /\ IF resolver.restarts = 0
               THEN CursorRowAsFound
               ELSE get_singelton_spend_by_id(db, LauncherId) = NoRow)

\* A call found its cursor row stale, deleted it, walked again from the
\* launcher and failed on a parent with two odd-amount children.
C12_Witness ==
  /\ AmbiguousRaised
  /\ resolver.restarts = 1
  /\ resolver.first_row # NoRow
  /\ get_singelton_spend_by_id(db, LauncherId) = NoRow

\* The row is a cursor of the chain w: it names the coin that d spends lead
\* to and the height of that coin's spend, which created an odd-amount coin.
CursorAt(w, row, d) ==
  /\ d + 1 <= Len(w.spends)
  /\ row.coin_id = MainCoin(w, d)
  /\ row.spent_block_index = w.spends[d + 1].height
  /\ w.spends[d + 1].children # "even"

ValidCursor(w, row) == \E d \in 0..(Len(w.spends) - 1) : CursorAt(w, row, d)

\* Every spend of the chain is a singleton spend: none created two
\* odd-amount coins.
SingletonChain(w) ==
  \A i \in 1..Len(w.spends) : w.spends[i].children # "two_odd"

\* Resolution from scratch: the call on the same chain with no cursor row.
FromScratch(w) == get_and_sync_singleton(w, EmptyDb)

\* C13: on a chain of singleton spends, a call that began with a valid cursor
\* row on some coin of the chain returns or raises what resolution from scratch with no cursor row does;
\* when a coin is returned, the call resumed from the row without walking
\* again from the launcher, and leaves the cursor row that resolution from
\* scratch leaves.
C13_ResumedAsFromScratch ==
  (/\ ResolvedStable
   /\ SingletonChain(world)
   /\ ValidCursor(world, resolver.first_row)) =>
     /\ resolver.result = FromScratch(world).result
     /\ resolver.result.kind = "ok" =>
          /\ resolver.restarts = 0
          /\ db = FromScratch(world).db

\* A call began with the cursor on the launcher, two spends behind the
\* unspent coin, and returned that coin.
C13_Witness ==
  /\ ResolvedStable
  /\ SingletonChain(world)
  /\ Len(world.spends) = MaxSpends
  /\ CursorAt(world, resolver.first_row, 0)
  /\ resolver.result.kind = "ok"
  /\ resolver.result.current_coin.id = MainCoin(world, MaxSpends)
  /\ resolver.restarts = 0

\* The walk from the cursor row ended with no odd-amount record.
FoundStale ==
  /\ resolver.pc = "after"
  /\ resolver.odd_coin_record = NoRecord
  /\ resolver.had_row

\* C14: a call whose walk from the cursor row finds no odd-amount child
\* deletes the row and walks again from the launcher id; a call does so at
\* most once; its outcome and the row it leaves are those of resolution from
\* scratch on the chain as it is; and when the chain still ends in an unspent
\* singleton coin the call returns that coin, not an error.
C14_StaleCursorRestarts ==
  /\ [][(FoundStale /\ resolver' # resolver /\ world' = world)
          => /\ get_singelton_spend_by_id(db', LauncherId) = NoRow
             /\ resolver'.pc = "start"
             /\ resolver'.restarts = resolver.restarts + 1]_vars
  /\ [](resolver.restarts <= 1)
  /\ []((ResolvedStable /\ resolver.restarts >= 1) =>
          /\ resolver.result = FromScratch(world).result
          /\ db = FromScratch(world).db
          /\ UniqueOddChain(world) =>
               /\ resolver.result.kind = "ok"
               /\ resolver.result.current_coin =
                    ChainResult(world).current_coin)

\* A call found its cursor row stale, walked again from the launcher and
\* returned the unspent coin of the chain left by a rollback.
C14_Witness ==
  /\ ResolvedStable
  /\ world.nrollback >= 1
  /\ UniqueOddChain(world)
  /\ resolver.first_row # NoRow
  /\ resolver.restarts = 1
  /\ resolver.result.kind = "ok"

\* -------------------------------------------------- claims on the watcher

\* The greatest height of a stored block.
HighestPersisted(d) ==
  CHOOSE h \in {b.height : b \in d.block} : \A b \in d.block : b.height <= h

\* Watcher.start is in its loop.
Running == watcher.pc # "stopped"

\* C15: the watcher starts at the greatest stored height plus one when a
\* block is stored and at the node's peak when none is; it starts at a height
\* with no stored block, at height 0 only when height 0 is the peak and
\* nothing is stored, and the height it works on is above every stored one.
C15_ColdStart ==
  /\ [][(watcher.pc = "stopped" /\ watcher'.pc # "stopped") =>
          /\ watcher'.pc = "loop"
          /\ watcher'.start_height =
               IF db.block # {} THEN HighestPersisted(db) + 1
                                ELSE get_peak_height
          /\ \A b \in db.block : b.height # watcher'.start_height
          /\ watcher'.start_height = 0 =>
               (db.block = {} /\ get_peak_height = 0)]_vars
  /\ [](Running => \A b \in db.block : b.height < watcher.start_height)

\* The watcher went down between marking the removals of a height and
\* storing its block, and has started again at that height, one above the
\* greatest stored height.
C15_Witness ==
  /\ watcher.pc = "loop"
  /\ db.block # {}
  /\ watcher.start_height = HighestPersisted(db) + 1
  /\ \E c \in DOMAIN db.asset : db.asset[c].spent_height = watcher.start_height

MismatchMet ==
  /\ watcher.pc = "loop"
  /\ watcher.start_height <= get_peak_height
  /\ watcher.prev_block # NoBlock
  /\ watcher.prev_block.hash #
       get_block_record_by_height(watcher.start_height).prev_hash

\* The stored block of height h is the node's block of height h.
StoredOnChain(h) ==
  \E b \in db.block : b.height = h /\ b.hash = header_hash(chain, h)

\* The fork point: the greatest height below the watcher's whose stored block
\* is the node's, 0 when the scan finds none.
ForkPoint ==
  IF \E h \in 1..(watcher.start_height - 1) : StoredOnChain(h)
    THEN CHOOSE h \in 1..(watcher.start_height - 1) :
           /\ StoredOnChain(h)
           /\ \A k \in (h + 1)..(watcher.start_height - 1) : ~StoredOnChain(k)
    ELSE 0

\* C17: the step the watcher takes when the fetched block's prev_hash is not
\* the hash of its previous block runs reorg(f) for the fork point f, stores
\* and marks nothing of the fetched block, and leaves the watcher in its loop
\* at height f + 1 with the stored block of height f as previous block.
C17_ReorgsToForkPoint ==
  [][(MismatchMet /\ watcher' # watcher /\ chain' = chain) =>
       /\ watcher'.pc = "loop"
       /\ watcher'.start_height = ForkPoint + 1
       /\ db' = reorg(db, ForkPoint)
       /\ ForkPoint > 0 =>
            /\ watcher'.prev_block \in db.block
            /\ watcher'.prev_block.height = ForkPoint]_vars

\* The coins that the node's block with this header hash removes.
RemovalsOf(block) == block.hash[Len(block.hash)].removals

\* C18: for a fetched block of height H that passed the comparison of its
\* prev_hash: new_block is run exactly for a transaction block and sets
\* spent_height = H on the Asset rows whose coin_id the block removes and
\* changes no other row; no other step of the pass changes an Asset row; the
\* insert of the block cannot fail; and the pass ends with the block stored,
\* the block held as previous block and the height one greater.
C18_BlockApplied ==
  /\ [](watcher.pc = "new_block" => watcher.block.is_tx)
  /\ [][(watcher.pc = "loop" /\ watcher'.pc \in {"new_block", "save_block"}) =>
          /\ watcher'.block.height = watcher.start_height
          /\ watcher'.pc = "new_block" <=> watcher'.block.is_tx
          /\ db' = db]_vars
  /\ [][(watcher.pc = "new_block" /\ watcher'.pc = "save_block") =>
          /\ DOMAIN db'.asset = DOMAIN db.asset
          /\ \A c \in DOMAIN db.asset :
               db'.asset[c] =
                 IF c \in RemovalsOf(watcher.block)
                   THEN [db.asset[c] EXCEPT !.spent_height = watcher.block.height]
                   ELSE db.asset[c]
          /\ db'.block = db.block]_vars
  /\ [](watcher.pc = "save_block" =>
          \A b \in db.block :
            b.hash # watcher.block.hash /\ b.height # watcher.block.height)
  /\ [][(watcher.pc = "save_block" /\ watcher'.pc = "loop") =>
          /\ db'.asset = db.asset
          /\ db'.block = db.block \cup {watcher.block}
          /\ watcher'.prev_block = watcher.block
          /\ watcher'.start_height = watcher.start_height + 1]_vars

\* The watcher has handled a transaction block that removes the coin of a
\* stored Asset: the row has the block's height as spent_height, the block is
\* stored and the watcher is at the next height.
C18_Witness ==
  /\ watcher.pc = "loop"
  /\ watcher.prev_block \in db.block
  /\ watcher.prev_block.is_tx
  /\ watcher.start_height = watcher.prev_block.height + 1
  /\ \E c \in DOMAIN db.asset :
       /\ c \in RemovalsOf(watcher.prev_block)
       /\ db.asset[c].spent_height = watcher.prev_block.height

\* ---------------------------------------------- claims on SingleFlight.do

Works == 1..Len(guard.work)

\* Caller r is inside do.
InsideDo(r) ==
  guard.caller[r].pc \in {"await_own", "await_shared", "ready_own", "ready_shared"}

\* Caller r enters do with this step, for the key it then holds.
Enters(r) == guard.caller[r].pc = "idle" /\ guard'.caller[r].pc # "idle"

\* The step starts a unit of work for key, awaited by caller r.
StartsWork(r, key) ==
  /\ Len(guard'.work) = Len(guard.work) + 1
  /\ guard'.work[Len(guard'.work)] =
       [key |-> key, status |-> "running", outcome |-> "none"]
  /\ guard'.caller[r].pc = "await_own"
  /\ guard'.caller[r].fut = Len(guard'.work)

\* C19: at most one unit of work per key is running; a caller that enters do
\* while its key is registered starts no work, awaits the registered work and
\* leaves with exactly that work's result or exception; a caller awaits only
\* work of its own key, and a caller whose key is not registered starts its
\* work at once, whatever is in flight for other keys.
C19_SingleFlight ==
  /\ [](\A key \in GuardKeys :
          Cardinality({w \in Works : /\ guard.work[w].key = key
                                     /\ guard.work[w].status = "running"}) <= 1)
  /\ [][\A r \in Callers :
          (Enters(r) /\ guard'.caller[r].key \in DOMAIN guard.key_future) =>
             /\ guard'.work = guard.work
             /\ guard'.key_future = guard.key_future
             /\ ~guard'.caller[r].started
             /\ guard'.caller[r].fut = guard.key_future[guard'.caller[r].key]]_vars
  /\ [][\A r \in Callers :
          (Enters(r) /\ guard'.caller[r].key \notin DOMAIN guard.key_future) =>
             StartsWork(r, guard'.caller[r].key)]_vars
  /\ [](\A r \in Callers :
          /\ InsideDo(r) =>
               guard.work[guard.caller[r].fut].key = guard.caller[r].key
          /\ guard.caller[r].pc \in {"await_own", "await_shared"} =>
               guard.work[guard.caller[r].fut].status = "running"
          /\ guard.caller[r].pc = "left" =>
               /\ guard.work[guard.caller[r].fut].status = "done"
               /\ guard.caller[r].got =
                    [kind |-> guard.work[guard.caller[r].fut].outcome,
                     work |-> guard.caller[r].fut])

\* Two callers have left do with the exception of one unit of work, which
\* one of them started and the other joined, while a third caller awaits its
\* own work for the other key.
C19_Witness ==
  \E r1 \in Callers, r2 \in Callers, r3 \in Callers :
    /\ guard.caller[r1].pc = "left" /\ guard.caller[r1].started
    /\ guard.caller[r2].pc = "left" /\ ~guard.caller[r2].started
    /\ guard.caller[r1].got = guard.caller[r2].got
    /\ guard.caller[r1].got.kind = "raised"
    /\ guard.caller[r3].pc = "await_own"
    /\ guard.caller[r3].key # guard.caller[r1].key

\* C20: the caller that started a unit of work removes the key when it
\* resumes, whether the work returned or raised; a key is registered only
\* while the caller that started its work is inside do, so the registry is
\* empty whenever no caller is inside do; and a caller that enters do while
\* nobody is inside do for its key starts its work, also after work for that
\* key has raised.
C20_Unregistered ==
  /\ [][\A r \in Callers :
          (guard.caller[r].pc = "ready_own" /\ guard'.caller[r].pc = "left") =>
             /\ guard.caller[r].key \notin DOMAIN guard'.key_future
             /\ guard'.caller[r].got.kind \in {"returned", "raised"}]_vars
  /\ [](\A key \in DOMAIN guard.key_future :
          \E r \in Callers :
            /\ guard.caller[r].pc \in {"await_own", "ready_own"}
            /\ guard.caller[r].key = key
            /\ guard.caller[r].fut = guard.key_future[key])
  /\ []((\A r \in Callers : ~InsideDo(r)) => DOMAIN guard.key_future = {})
  /\ [][\A r \in Callers :
          (/\ Enters(r)
           /\ \A o \in Callers :
                InsideDo(o) => guard.caller[o].key # guard'.caller[r].key) =>
             StartsWork(r, guard'.caller[r].key)]_vars

\* Work for a key raised, and after the callers had left do, work for the
\* same key was started and returned; no caller is inside do and nothing is
\* registered.
C20_Witness ==
  /\ \A r \in Callers : ~InsideDo(r)
  /\ DOMAIN guard.key_future = {}
  /\ \E w1 \in Works, w2 \in Works :
       /\ w1 < w2
       /\ guard.work[w1].key = guard.work[w2].key
       /\ guard.work[w1].outcome = "raised"
       /\ guard.work[w2].outcome = "returned"
       /\ \E r \in Callers :
            /\ guard.caller[r].pc = "left"
            /\ guard.caller[r].got = [kind |-> "returned", work |-> w2]

\* The work started so far for the key that caller r holds after the step
\* is all done.
PreviousWorkCompleted(r) ==
  /\ \E w \in Works : guard.work[w].key = guard'.caller[r].key
  /\ \A w \in Works :
       guard.work[w].key = guard'.caller[r].key =>
         guard.work[w].status = "done"

\* C21: a caller that enters do for a key after the previous unit of work
\* for that key has completed starts a new unit of work and does not get the
\* outcome of the previous one, whichever of the callers made ready by that
\* completion have run.
C21_NoCaching ==
  [][\A r \in Callers :
       (Enters(r) /\ PreviousWorkCompleted(r)) =>
          /\ StartsWork(r, guard'.caller[r].key)
          /\ guard'.caller[r].got = NoOutcome]_vars

\* ------------------------------------------- claims on create_transaction

\* The request is over and the caller has this response.
Responded(kind, detail) ==
  /\ sendtx.pc = "done"
  /\ sendtx.response.kind = kind
  /\ sendtx.response.detail = detail

\* C22: when the node answers push_tx with the still-syncing error twice and
\* accepts the transaction the third time, the caller of create_transaction
\* gets the success status.
C22_ThirdAttemptSucceeds ==
  (/\ sendtx.pc = "done"
   /\ sendtx.answers = <<StillSyncing, StillSyncing, Accepted>>) =>
     Responded("returned", "SUCCESS")

\* C23: push_tx is called again only after a still-syncing failure and after
\* the fixed delay; a request makes at most retry_during_sync_number calls,
\* and when all of them met a syncing node the failure is surfaced as the
\* timeout; any other failure of push_tx is surfaced by the call that met
\* it, with no further call.
C23_RetryOnlyWhileSyncing ==
  /\ [](/\ sendtx.pushed <= retry_during_sync_number
        /\ \A i \in 1..Len(sendtx.slept) : sendtx.slept[i] = sleep_seconds
        /\ \A i \in 1..(sendtx.pushed - 1) : sendtx.answers[i] = StillSyncing
        /\ sendtx.pc = "loop" => Len(sendtx.slept) = sendtx.pushed
        /\ sendtx.pc = "done" =>
             LET last == IF sendtx.pushed = 0 THEN Accepted
                         ELSE sendtx.answers[sendtx.pushed]
             IN /\ sendtx.pushed >= 1
                /\ last = Accepted => Responded("returned", "SUCCESS")
                /\ last = StillSyncing =>
                     /\ sendtx.pushed = retry_during_sync_number
                     /\ Responded("HTTPException", "sendtx: timeout")
                /\ last.error = "DOUBLE_SPEND" =>
                     Responded("HTTPException", "DOUBLE_SPEND")
                /\ last.error = "unreachable" =>
                     Responded("raised", "unreachable"))
  /\ [][sendtx.pc = "done" => sendtx' = sendtx]_vars

\* The node was syncing at the first call and rejected the transaction at
\* the second, which came after one delay: the rejection is the response.
C23_Witness ==
  /\ Responded("HTTPException", "DOUBLE_SPEND")
  /\ sendtx.pushed = 2
  /\ sendtx.slept = <<sleep_seconds>>
  /\ sendtx.answers[1] = StillSyncing

\* ----------------------------------------------------- claims on Program

\* What is left of the stream f after one program in its one canonical
\* encoding: every atom in its shortest form.
RECURSIVE canonical_from_stream(_)
canonical_from_stream(f) ==
  IF f = <<>> THEN [ok |-> FALSE, rest |-> <<>>]
  ELSE LET b == Head(f)
           r == Tail(f)
       IN IF b = 255
            THEN LET first == canonical_from_stream(r)
                 IN IF ~first.ok THEN first
                    ELSE canonical_from_stream(first.rest)
          ELSE IF b <= 128 THEN [ok |-> TRUE, rest |-> r]
          ELSE IF b >= 192 \/ Len(r) < b - 128 \/ (b = 129 /\ r[1] <= 127)
            THEN [ok |-> FALSE, rest |-> <<>>]
          ELSE [ok |-> TRUE, rest |-> SubSeq(r, b - 128 + 1, Len(r))]

\* The buffer is the canonical encoding of one program.
Canonical(blob) ==
  LET c == canonical_from_stream(blob) IN c.ok /\ c.rest = <<>>

\* C24: decoding the bytes of a program tree gives the tree back; encoding
\* the program decoded from a canonical buffer gives the buffer back; and
\* from_bytes raises on a buffer of which bytes are left after the parse of
\* one complete program.
C24_CodecRoundTrip ==
  /\ program.done = <<"bytes", "from_bytes">> => program.val = program.input
  /\ (program.done = <<"from_bytes", "bytes">> /\ Canonical(program.input.b)) =>
       program.val = program.input
  /\ (program.done = <<"from_bytes">> /\ Canonical(program.input.b)) =>
       program.val.kind = "Program"
  /\ program.done = <<"from_bytes">> =>
       LET result == sexp_from_stream(program.input.b)
       IN (result.ok /\ result.rest # <<>>) => program.val.kind = "raised"

\* The canonical buffer of a pair of an atom above 0x7f and the atom 1 was
\* decoded and the program encoded again to the same bytes.
C24_Witness ==
  /\ program.done = <<"from_bytes", "bytes">>
  /\ program.input = [kind |-> "bytes", b |-> <<255, 129, 128, 1>>]
  /\ program.val = program.input

\* The items of a nil-terminated list.
RECURSIVE as_iter(_)
as_iter(p) == IF listp(p) THEN <<p.first>> \o as_iter(p.rest) ELSE <<>>

\* What uncurry returns for a program that is not curried.
Sentinel(p) == [kind |-> "tuple", mod |-> p, args |-> Nil]

\* C25: uncurry of mod.curry(*args) is mod and the list of args, for no,
\* one or more arguments; uncurry of any other program, of an atom in
\* particular, is the program itself with the empty atom, so that whatever
\* uncurry takes apart is the curry of what it returns.
C25_CurryUncurry ==
  /\ program.done = <<"curry", "uncurry">> =>
       program.val = [kind |-> "tuple", mod |-> program.input.p,
                      args |-> to_list(program.args)]
  /\ program.done = <<"uncurry">> =>
       /\ \/ program.val = Sentinel(program.input.p)
          \/ program.input.p = curry(program.val.mod, as_iter(program.val.args))
       /\ ~listp(program.input.p) => program.val = Sentinel(program.input.p)
       /\ program.input.p \in NearlyCurried =>
            program.val = Sentinel(program.input.p)

\* A pair was curried with two arguments that differ, one of them a pair
\* headed by the atom 1, and uncurry gave the pair and the two arguments.
C25_Witness ==
  /\ program.done = <<"curry", "uncurry">>
  /\ listp(program.input.p)
  /\ program.args = <<Atom(<<4>>), Cons(Atom(<<1>>), Nil)>>
  /\ program.val.mod = program.input.p
  /\ as_iter(program.val.args) = program.args

\* ------------------------------------------- claims on sync_user_assets

\* The heights of the stored transaction blocks.
TxHeights(d) == {b.height : b \in {x \in d.block : x.is_tx}}

\* C26: sync_user_assets resumes at the persisted height of the address
\* plus 1, at 1 when the address has no row; its target is the height of
\* the highest stored transaction block, and the node's tip only when no
\* transaction block is stored; with the resume height at or above the
\* target it returns with no hint query and no write, and otherwise it goes
\* on to the hint query.
C26_ResumeAndTarget ==
  [][\A r \in Reqs :
       LET t == task[r]
           u == task'[r]
       IN /\ (t.pc = "start" /\ u.pc # "start") =>
               /\ u.start_height =
                    IF t.address \in DOMAIN db.address_sync
                      THEN db.address_sync[t.address] + 1
                      ELSE 1
               /\ IF TxHeights(db) = {}
                    THEN u.pc = "tip"
                    ELSE /\ u.pc \in {"hint", "done"}
                         /\ u.end_height \in TxHeights(db)
                         /\ \A h \in TxHeights(db) : h <= u.end_height
          /\ (t.pc = "tip" /\ u.pc # "tip") =>
               /\ u.pc \in {"hint", "done"}
               /\ u.start_height = t.start_height
               /\ u.end_height = peak
          /\ (t.pc \in {"start", "tip"} /\ u.pc \in {"hint", "done"}) =>
               IF u.start_height >= u.end_height
                 THEN u.pc = "done" /\ u.outcome = "noop" /\ db' = db
                 ELSE u.pc = "hint"]_vars

\* A call that resumed above a persisted height and took its target from a
\* stored transaction block returned early, with blocks stored that are no
\* transaction blocks above the target.
C26_Witness ==
  \E r \in Reqs :
    /\ task[r].pc = "done"
    /\ task[r].outcome = "noop"
    /\ task[r].address \in DOMAIN db.address_sync
    /\ task[r].start_height = db.address_sync[task[r].address] + 1
    /\ task[r].end_height = task[r].latest_tx
    /\ task[r].latest_tx >= 1
    /\ \E b \in db.block : b.height > task[r].end_height

\* The persisted sync height of the address, 0 when it has no row.
Persisted(d, address) ==
  IF address \in DOMAIN d.address_sync THEN d.address_sync[address] ELSE 0

\* C27: over the calls that stored a sync height, with no rollback, every
\* height from 1 to the persisted sync height was in the range of exactly
\* one hint query and no height above it in any; a call stores its height
\* one above which the next range starts; and every coin record of a hint
\* query goes through handle_coin before the height is stored.
C27_RangesContiguous ==
  /\ [](\A a \in SyncAddresses : \A h \in 1..MaxPeak :
          last_call[a].covered[h] = IF h <= Persisted(db, a) THEN 1 ELSE 0)
  /\ [][\A r \in Reqs :
          LET t == task[r]
              u == task'[r]
          IN /\ (t.pc = "hint" /\ u.pc # "hint") =>
                  /\ \A coin \in ChainCoins :
                       (\E i \in 1..Len(u.coin_records) :
                          u.coin_records[i].coin = coin)
                         <=> /\ confirmed_block_index(chain, coin)
                                  \in t.start_height..t.end_height
                             /\ spent_block_index(chain, coin) = -1
                  /\ u.pc = IF u.coin_records = <<>> THEN "save_height"
                            ELSE "coins"
             /\ (t.pc = "coins" /\ u # t) =>
                  LET res == handle_coin(t.address, Head(t.coin_records),
                                         PuzzleHashOf(Head(t.coin_records).coin),
                                         ParentSpendOf(Head(t.coin_records).coin),
                                         db)
                  IN IF res.outcome = "raised"
                       THEN u.outcome = "raised" /\ db' = db
                       ELSE /\ db' = res.db
                            /\ u.coin_records = Tail(t.coin_records)
                            /\ u.pc = IF u.coin_records = <<>>
                                        THEN "save_height" ELSE "coins"
             /\ (t.pc = "save_height" /\ u # t) =>
                  /\ t.coin_records = <<>>
                  /\ t.start_height = Persisted(db, t.address) + 1
                  /\ Persisted(db', t.address) = t.end_height
                  /\ t.start_height <= t.end_height]_vars

\* Two calls stored a sync height, the second one above the first, and the
\* range of the second held a coin record.
C27_Witness ==
  \E a \in SyncAddresses :
    /\ last_call[a].has
    /\ Persisted(db, a) >= 3
    /\ last_call[a].covered[Persisted(db, a)] = 1
    /\ \E r \in Reqs :
         /\ task[r].pc = "done"
         /\ task[r].outcome = "synced"
         /\ task[r].start_height >= 2
         /\ \E coin \in ChainCoins :
              confirmed_block_index(chain, coin) >= task[r].start_height

\* ------------------------------ claims on the matchers in sync_user_assets

\* The puzzle of the parent spend is no singleton's, or its inner puzzle is
\* neither a DID's nor an NFT's.
NotAssetPuzzle(parent_cs) ==
  parent_cs.top # "singleton" \/ parent_cs.inner \notin {"did", "nft"}

\* The coin record that the call of request r handles next, or raised on.
NextRecord(r) == Head(task[r].coin_records)

\* C28: handle_coin on a hinted coin whose parent puzzle is neither a DID's
\* nor an NFT's raises nothing and leaves the tables as they are; the call
\* goes on to the next record, or to the store of the sync height when
\* there is none, and that store writes end_height; a call raises only on a
\* record whose parent puzzle is a DID's or an NFT's.
C28_NonMatchSkipped ==
  /\ [][\A r \in Reqs :
          LET t == task[r]
              u == task'[r]
          IN /\ (/\ t.pc = "coins"
                 /\ u # t
                 /\ NotAssetPuzzle(ParentSpendOf(NextRecord(r).coin))) =>
                  /\ db' = db
                  /\ u.outcome = "none"
                  /\ u.coin_records = Tail(t.coin_records)
                  /\ u.pc = IF u.coin_records = <<>> THEN "save_height"
                            ELSE "coins"
             /\ (t.pc = "save_height" /\ u # t) =>
                  /\ u.outcome = "synced"
                  /\ Persisted(db', t.address) = t.end_height]_vars
  /\ [](\A r \in Reqs :
          (task[r].pc = "done" /\ task[r].outcome = "raised") =>
             ~NotAssetPuzzle(ParentSpendOf(NextRecord(r).coin)))

\* The call met c1, whose parent puzzle is no asset's, and then c2, an NFT
\* sent to the address: it stored c2 only and the sync height.
C28_Witness ==
  \E r \in Reqs :
    /\ task[r].pc = "done"
    /\ task[r].outcome = "synced"
    /\ NotAssetPuzzle(ParentSpendOf("c1"))
    /\ confirmed_block_index(chain, "c2") = 2
    /\ DOMAIN db.asset = {"c2"}
    /\ Persisted(db, task[r].address) = 2

\* The parent spend is an NFT's and its p2 puzzle emits no create-coin
\* condition (51) with the amount 1.
NoCreateCoinOne(parent_cs) ==
  /\ parent_cs.top = "singleton"
  /\ parent_cs.inner = "nft"
  /\ \A i \in 1..Len(parent_cs.conditions) :
       ~(parent_cs.conditions[i].code = 51 /\ parent_cs.conditions[i].amount = 1)

\* C29: handle_coin on a hinted coin whose parent is an NFT spend with no
\* create-coin condition of amount 1 raises: the call ends with the
\* exception at that record, the request that started it is made ready
\* with it, and nothing is written; the persisted sync height is still the
\* one the call resumed from, so that the next call starts at the same
\* height.
C29_NoCreateCoinRaises ==
  /\ [][\A r \in Reqs :
          LET t == task[r]
              u == task'[r]
          IN (/\ t.pc = "coins"
              /\ u # t
              /\ NoCreateCoinOne(ParentSpendOf(NextRecord(r).coin))) =>
               /\ u = [t EXCEPT !.pc = "done", !.outcome = "raised"]
               /\ db' = db
               /\ req'[r].pc = "resume_own"]_vars
  /\ [](\A r \in Reqs :
          (task[r].pc \in {"hint", "coins"}
             \/ (task[r].pc = "done" /\ task[r].outcome = "raised")) =>
            task[r].start_height = Persisted(db, task[r].address) + 1)

\* A call stored c1 and raised on c2, the spend of an NFT with no
\* create-coin condition of amount 1; the next call has queried the same
\* range and is about to handle c1 again, with no sync height stored.
C29_Witness ==
  \E r \in Reqs :
    /\ task[r].pc = "coins"
    /\ Len(task[r].coin_records) = 2
    /\ task[r].start_height = 1
    /\ "c1" \in DOMAIN db.asset
    /\ NoCreateCoinOne(ParentSpendOf("c2"))
    /\ Persisted(db, task[r].address) = 0

\* ---------------------------------- claims on get_did_info_from_coin_spend

\* The full puzzle hash of a DID of the launcher owned by address with the
\* recovery list hash and the number of verifications.
FullPuzzleHash(address, recovery_list_hash, num_verification, launcher_id) ==
  to_full_pzh(get_did_inner_puzzle_hash(address, recovery_list_hash,
                                        num_verification, launcher_id),
              launcher_id)

\* C30: for the parent spend of a DID, get_did_info_from_coin_spend returns
\* a record with the parent's recovery list hash and number of verifications
\* when the coin's puzzle hash is the one derived for the address with
\* them; a record with the empty recovery list hash and 0 verifications when
\* it is the one derived for the address with these; and no match otherwise.
C30_DidRecordExactly ==
  (match.outcome # "pending" /\ match.parent_cs \in DidSpends) =>
    LET parent_cs == match.parent_cs
        did_info == get_did_info_from_coin_spend(match.coin_puzzle_hash,
                                                 parent_cs, match.address)
    IN IF match.coin_puzzle_hash =
            FullPuzzleHash(match.address, parent_cs.recovery_list_hash,
                           parent_cs.num_verification, parent_cs.launcher_id)
         THEN /\ did_info.kind = "did"
              /\ did_info.recovery_list_hash = parent_cs.recovery_list_hash
              /\ did_info.num_verification = parent_cs.num_verification
              /\ match.outcome = "saved"
       ELSE IF match.coin_puzzle_hash =
                 FullPuzzleHash(match.address, EmptyListHash, 0,
                                parent_cs.launcher_id)
         THEN /\ did_info.kind = "did"
              /\ did_info.recovery_list_hash = EmptyListHash
              /\ did_info.num_verification = 0
              /\ match.outcome = "saved"
       ELSE did_info = NoMatch /\ match.outcome = "skipped"

\* -------------------------------------- claims on the NFT condition scan

\* The places of the create-coin conditions (51) with the amount 1, and of
\* the owner-change conditions (-10), in the conditions of a parent spend.
CreateCoinOnes(conditions) ==
  {i \in 1..Len(conditions) :
     conditions[i].code = 51 /\ conditions[i].amount = 1}

OwnerChanges(conditions) ==
  {i \in 1..Len(conditions) : conditions[i].code = -10}

Least(S) == CHOOSE i \in S : \A j \in S : i <= j

Greatest(S) == CHOOSE i \in S : \A j \in S : j <= i

\* The DID an NFT is stored with: none without an ownership layer; with
\* one, the DID of the (last) owner-change condition, the empty atom being
\* none, and the parent's current DID when there is no such condition.
ExpectedDid(parent_cs) ==
  LET changes == OwnerChanges(parent_cs.conditions)
      given == parent_cs.conditions[Greatest(changes)].did
  IN IF ~parent_cs.supports_did THEN "none"
     ELSE IF changes = {}
       THEN (IF parent_cs.owner_did = "" THEN "none" ELSE parent_cs.owner_did)
     ELSE IF given = "" THEN "none" ELSE given

\* C31: for the parent spend of an NFT whose p2 puzzle emits a create-coin
\* condition with the amount 1, the new p2_puzzle_hash is the puzzle hash
\* of the first such condition, whatever the later ones carry: the coin is
\* stored exactly when that hash is the address, as an NFT with that
\* p2_puzzle_hash; and it is stored with the DID of the owner-change
\* condition (none for the empty atom), with the parent's current DID when
\* there is no owner-change condition, and with no DID when the NFT has no
\* ownership layer.
C31_ConditionScan ==
  (/\ match.outcome # "pending"
   /\ match.parent_cs \in NftSpends(ConditionLists)
   /\ CreateCoinOnes(match.parent_cs.conditions) # {}) =>
    LET parent_cs == match.parent_cs
        first == Least(CreateCoinOnes(parent_cs.conditions))
        new_p2_puzhash == parent_cs.conditions[first].puzzle_hash
    IN IF new_p2_puzhash = match.address
         THEN /\ match.outcome = "saved"
              /\ db.asset["c1"].asset_type = "nft"
              /\ db.asset["c1"].p2_puzzle_hash = new_p2_puzhash
              /\ match.nft_did_id = ExpectedDid(parent_cs)
         ELSE /\ match.outcome = "skipped"
              /\ db = EmptyDb

\* An NFT whose p2 puzzle creates a coin for the address and changes the
\* owner to D2 has been stored with D2, the parent's DID being D1.
C31_Witness ==
  /\ match.outcome = "saved"
  /\ match.parent_cs \in NftSpends(ConditionLists)
  /\ match.parent_cs.supports_did
  /\ match.parent_cs.owner_did = "D1"
  /\ OwnerChanges(match.parent_cs.conditions) # {}
  /\ match.nft_did_id = "D2"

\* ------------------------- claims on update_asset_coin_spent_height

\* The tables d with spent_height set on exactly the Asset rows whose
\* coin_id is in the list.
SpentExactly(d, coin_ids, spent_height) ==
  /\ d.address_sync = txn.pre.address_sync
  /\ d.block = txn.pre.block
  /\ d.singletonspend = txn.pre.singletonspend
  /\ DOMAIN d.asset = DOMAIN txn.pre.asset
  /\ \A c \in DOMAIN d.asset :
       d.asset[c] =
         IF \E k \in 1..Len(coin_ids) : coin_ids[k] = c
           THEN [txn.pre.asset[c] EXCEPT !.spent_height = spent_height]
           ELSE txn.pre.asset[c]

\* C32: while the transaction of update_asset_coin_spent_height(coin_ids, H)
\* is open the committed tables stay as they are; it ends either committed,
\* with spent_height = H on exactly the Asset rows whose coin_id is in the
\* list, every other row and table as before and every place of the list
\* held by exactly one chunk, or rolled back with the tables as before the
\* call; no chunk holds more than chunk_size ids.
C32_ChunkedUpdate ==
  [][txn.status = "open" =>
       \/ /\ txn'.status = "open"
          /\ db' = db
          /\ txn'.i - txn.i = chunk_size
          /\ \A k \in 1..Len(txn.coin_ids) : txn'.covered[k] <= 1
       \/ /\ txn'.status = "committed"
          /\ SpentExactly(db', txn.coin_ids, txn.spent_height)
          /\ \A k \in 1..Len(txn.coin_ids) : txn.covered[k] = 1
       \/ /\ txn'.status = "aborted"
          /\ db' = txn.pre]_vars

\* A call with a list of more than two chunks has committed: the rows at
\* the end of the first chunk and at the start of the third are spent at
\* the given height, and a row whose coin is not in the list is as before.
C32_Witness ==
  /\ txn.status = "committed"
  /\ Len(txn.coin_ids) = 2 * chunk_size + 1
  /\ txn.i = 3 * chunk_size
  /\ DOMAIN db.asset = 1..(MaxCoinIds + 1)
  /\ db.asset[chunk_size].spent_height = txn.spent_height
  /\ db.asset[2 * chunk_size + 1].spent_height = txn.spent_height
  /\ db.asset[MaxCoinIds + 1] = txn.pre.asset[MaxCoinIds + 1]
  /\ db # txn.pre

\* ------------------------------------- claims on the waiting watcher

\* The watcher has gone from the head of the loop to the sleep.
GoesToSleep == watcher.pc = "loop" /\ watcher'.pc = "sleep"

\* C33: a pass of the watcher's loop that finds the local height above the
\* node's peak, or whose fetch of the block record at the local height
\* fails, writes nothing to the tables and leaves start_height and
\* prev_block as they are; with the local height above the peak the watcher
\* takes no other pass; the pass after the sleep has the same start_height
\* and prev_block, and a block record that a pass fetches is the one of
\* start_height, which only the store of that block moves on, by one.
C33_WaitsAtSameHeight ==
  /\ [][GoesToSleep =>
          /\ db' = db
          /\ watcher'.start_height = watcher.start_height
          /\ watcher'.prev_block = watcher.prev_block]_vars
  /\ [][(/\ watcher.pc = "loop"
         /\ watcher.start_height > get_peak_height
         /\ watcher' # watcher) =>
          (GoesToSleep \/ watcher' = StoppedWatcher)]_vars
  /\ [][(watcher.pc = "sleep" /\ watcher' # watcher) =>
          /\ db' = db
          /\ \/ watcher' = [watcher EXCEPT !.pc = "loop"]
             \/ watcher' = StoppedWatcher]_vars
  /\ [][(watcher.pc = "loop" /\ watcher'.pc \in {"new_block", "save_block"}) =>
          /\ watcher'.block.height = watcher.start_height
          /\ watcher'.start_height = watcher.start_height]_vars
  /\ [][(/\ watcher.pc # "stopped"
         /\ watcher'.pc # "stopped"
         /\ watcher'.start_height # watcher.start_height) =>
          /\ watcher.pc = "save_block"
          /\ watcher'.start_height = watcher.start_height + 1
          /\ watcher.block \in db'.block]_vars

\* The watcher sleeps after a pass at height 2, with the block of height 1
\* stored as prev_block and a transaction block at height 2 on the node's
\* chain, not stored.
C33_Witness ==
  /\ watcher.pc = "sleep"
  /\ watcher.start_height = 2
  /\ watcher.prev_block.height = 1
  /\ watcher.prev_block \in db.block
  /\ get_peak_height >= 2
  /\ chain[3].is_tx
  /\ \A b \in db.block : b.height < 2

\* ------------------------------------------ claims on the cursor row

\* C34: when a get_and_sync_singleton call has returned coin c, the cursor
\* row of the singleton holds c's parent coin id and the height that
\* confirmed c; and when the call before returned coin c and the node's
\* record of the singleton has not changed since that call began, the call
\* makes exactly one get_coin_records_by_parent_ids query, does not
\* restart, and returns c.
C34_CursorCheckpoint ==
  /\ (resolver.pc = "done" /\ resolver.result.kind = "ok") =>
       /\ LauncherId \in DOMAIN db.singletonspend
       /\ db.singletonspend[LauncherId] =
            [coin_id |-> resolver.result.current_coin.parent,
             spent_block_index |->
               resolver.odd_coin_record.confirmed_block_index]
       /\ resolver.odd_coin_record.coin = resolver.result.current_coin
       /\ resolver.odd_coin_record \in
            ChildRecords(world, resolver.result.current_coin.parent)
            \/ ~resolver.stable
  /\ (resolver.pc = "done" /\ resolver.last_ok # NoCoin) =>
       /\ resolver.result.kind = "ok"
       /\ resolver.result.current_coin = resolver.last_ok
       /\ resolver.queries = 1
       /\ resolver.restarts = 0
       /\ resolver.first_row =
            [coin_id |-> resolver.last_ok.parent,
             spent_block_index |->
               resolver.odd_coin_record.confirmed_block_index]

\* The second of two calls on a chain of three spends has returned the
\* coin that the first returned, after one query.
C34_Witness ==
  /\ resolver.pc = "done"
  /\ resolver.last_ok # NoCoin
  /\ Len(world.spends) = 3
  /\ resolver.result.current_coin = resolver.last_ok
  /\ resolver.queries = 1

\* ---------------------------------------- claims on the input validation

\* The address does not decode or carries another prefix than the chain's.
InvalidAddress(address, chain_id) ==
  ~address.ok \/ address.prefix # network_prefix(chain_id)

\* The string, after a leading 0x if it has one, is not 64 hex digits.
InvalidSingletonId(str) ==
  LET body == IF Len(str) >= 2 /\ str[1] = "0" /\ str[2] = "x"
                THEN SubSeq(str, 3, Len(str)) ELSE str
  IN Len(body) # 2 * singleton_id_length
       \/ \E i \in 1..Len(body) : body[i] \notin HexDigits

InvalidInput(q) ==
  IF q.endpoint = "assets" THEN InvalidAddress(q.input, q.chain)
  ELSE InvalidSingletonId(q.input)

\* C35: a request is answered by its validation exactly when its address
\* does not decode or carries another prefix than the chain's, or its
\* singleton id is not hex of 32 bytes: the response is an HTTP 400, and the
\* step that gives it starts no unit of work, leaves the SingleFlight
\* registry, its waiters, the tables and every request in progress as they
\* are, and leaves the request itself over; a request that is inside sf.do
\* or past it has a valid input.
C35_ValidatedFirst ==
  /\ [][(api'.rejected # IdleApiRequest /\ api'.rejected # api.rejected) =>
          /\ InvalidInput(api'.rejected)
          /\ api'.rejected.response.status_code = 400
          /\ api'.rejected.response.detail \in
               {"Invalid Address", "Invalid singleton ID"}
          /\ guard' = guard
          /\ api'.request = api.request
          /\ api'.work_chain = api.work_chain
          /\ <<db, key_future, task, resolver>>' =
               <<db, key_future, task, resolver>>]_vars
  /\ [](\A r \in ApiRequests :
          api.request[r].pc # "idle" => ~InvalidInput(api.request[r]))
  /\ [](\A r \in ApiRequests :
          api.request[r].pc = "idle" => guard.caller[r].pc = "idle")

\* While a resolution for chain 0x01 is in flight, a request with a
\* singleton id of 33 bytes has been answered with 400.
C35_Witness ==
  /\ api.rejected.endpoint = "latest_singleton"
  /\ Len(api.rejected.input) = 2 * (singleton_id_length + 1)
  /\ \A i \in 1..Len(api.rejected.input) : api.rejected.input[i] \in HexDigits
  /\ api.rejected.response.status_code = 400
  /\ api.request[1].pc = "in_do"
  /\ api.request[1].endpoint = "latest_singleton"
  /\ guard.caller[1].pc = "await_own"

\* ------------------------------------------ claims on the chains of sf

\* C38: the response of a request for a chain that went through sf.do is
\* computed from that chain's RPC source and database.
C38_ChainIsolated ==
  \A r \in ApiRequests :
    api.request[r].pc = "responded" =>
      api.request[r].response.served_from = api.request[r].chain

\* ------------------------------------------------ claims on spent heights

\* No list_assets request is inside SingleFlight.do, so no sync_user_assets
\* call is running, and the node has kept to one fork.
NoSyncInProgress ==
  /\ \A r \in Reqs : req[r].pc = "idle"
  /\ \A r \in Reqs : task[r] = NoTask

\* C36: while no sync is in progress, a stored block of height s and an
\* Asset row of a coin among that block's removals go together with
\* spent_height = s on the row.
C36_SpentConsistent ==
  (NoSyncInProgress /\ nreorg = 0) =>
    \A b \in db.block : \A c \in DOMAIN db.asset :
      c \in get_removals(b.hash) => db.asset[c].spent_height = b.height

\* ------------------------------------------------ claims on reorg and sync

\* C37: once reorg has committed and no sync is running, no address's sync
\* height and no Asset's confirmed_height lies above the highest stored
\* block.
C37_RollbackVsSync ==
  (txn.status = "committed" /\ NoSyncInProgress /\ db.block # {}) =>
    /\ \A a \in DOMAIN db.address_sync :
         db.address_sync[a] <= get_latest_block(db).height
    /\ \A c \in DOMAIN db.asset :
         db.asset[c].confirmed_height <= get_latest_block(db).height

\* ------------------------------------------------ claims on the watcher's progress

\* The least height of a stored block: the height of the watcher's cold
\* start.
LowestStored ==
  (CHOOSE b \in db.block : \A o \in db.block : b.height <= o.height).height

\* For every height from the cold start to the node's peak, the stored block
\* is the node's block of that height.
StoredUpToPeak ==
  /\ db.block # {}
  /\ \A h \in LowestStored..peak : StoredOnChain(h)

\* C39: a watcher that meets a block whose prev_hash is not the hash of its
\* previous block gets, in the end, to a state where it has stored the
\* node's block for every height from its cold start to the peak.
C39_WatcherCatchesUp == MismatchMet ~> StoredUpToPeak

====
